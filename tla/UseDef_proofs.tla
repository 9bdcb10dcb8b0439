--------------------------- MODULE UseDef_proofs ---------------------------
(***************************************************************************)
(* For every set of instructions and values: the inductive invariant of    *)
(* UseDef under the calls of Mem2Reg, and the refinement of DefUse.        *)
(***************************************************************************)
EXTENDS UseDef, SequenceTheorems, TLAPS

\* What Usable and Placed become is a matter of status alone.
LEMMA PlacedFacts ==
    /\ Placed \subseteq Instr
    /\ Usable \subseteq Value
    /\ Scalar \subseteq Usable
    /\ RemovedAllocas \subseteq Value
    /\ RemovedAllocas \cap Usable = {}
    /\ \A i \in Instr \ Void : i \in Usable <=> (i \in Leaf \/ status[i] = "placed")
BY UseDefAssumption DEF Placed, Usable, Value, Scalar, RemovedAllocas

LEMMA InitIInv == Init => IInv
<1> SUFFICES ASSUME Init PROVE IInv
  OBVIOUS
<1>1. TypeOK
  <2>1. << >> \in Seq(Value)
    BY EmptySeq
  <2>2. QED
    BY <2>1 DEF Init, TypeOK
<1>2. Placed = {}
  BY DEF Init, Placed
<1>3. Complete /\ OnlyAllocasDangle
  BY <1>2 DEF Complete, OnlyAllocasDangle
<1>4. Sound
  BY DEF Init, Sound, Usable, Value
<1>5. NeverAborts
  BY DEF Init, NeverAborts
<1>6. Fresh
  BY UseDefAssumption DEF Init, Fresh, Value
<1>7. QED
  BY <1>1, <1>3, <1>4, <1>5, <1>6 DEF IInv

LEMMA AddUsesType ==
    ASSUME TypeOK, NEW i \in Instr, NEW ops \in Seq(Value), NEW first \in Nat
    PROVE  AddUses(i, ops, first) \in [Value -> SUBSET Record]
<1>1. ASSUME NEW v \in Value
      PROVE  use_list[v] \cup {[user |-> i, arg_no |-> k] :
                k \in {j \in DOMAIN ops : j >= first /\ ops[j] = v}} \in SUBSET Record
  <2>1. DOMAIN ops = 1..Len(ops) /\ Len(ops) \in Nat
    BY LenProperties
  <2>2. DOMAIN ops \subseteq Nat
    BY <2>1
  <2>3. QED
    BY <2>2 DEF TypeOK, Record
<1>2. QED
  BY <1>1 DEF AddUses

LEMMA CreateStep ==
    ASSUME IInv, NEW i \in Instr, NEW ops \in Seq(Usable), Create(i, ops)
    PROVE  IInv'
<1> USE DEF IInv
<1>1. ops \in Seq(Value)
  BY PlacedFacts, SeqMonotonic
<1>2. \A k \in DOMAIN ops : ops[k] \in Usable /\ k \in Nat /\ k >= 1
  BY LenProperties
<1>3. TypeOK'
  BY <1>1, AddUsesType, SMT DEF Create, TypeOK
<1>4. /\ Placed' = Placed \cup {i}
      /\ i \notin Placed
      /\ Usable \subseteq Usable'
      /\ Usable' \subseteq Usable \cup {i}
      /\ RemovedAllocas' = RemovedAllocas
  BY UseDefAssumption DEF Create, TypeOK, Placed, Usable, RemovedAllocas
<1>5. \A j \in Instr : operands'[j] = IF j = i THEN ops ELSE operands[j]
  BY DEF Create, TypeOK
<1>6. \A v \in Value : use_list'[v] =
         use_list[v] \cup {[user |-> i, arg_no |-> k] : k \in {j \in DOMAIN ops : ops[j] = v}}
  <2>1. \A v \in Value : {j \in DOMAIN ops : j >= 1 /\ ops[j] = v} = {j \in DOMAIN ops : ops[j] = v}
    BY <1>2
  <2>2. QED
    BY <2>1 DEF Create, AddUses
<1>7. Complete'
  <2> SUFFICES ASSUME NEW j \in Placed', NEW k \in DOMAIN operands'[j]
               PROVE  [user |-> j, arg_no |-> k] \in use_list'[operands'[j][k]]
    BY DEF Complete
  <2>1. CASE j = i
    BY <2>1, <1>1, <1>2, <1>5, <1>6, PlacedFacts DEF Placed
  <2>2. CASE j # i
    <3>1. j \in Placed /\ j \in Instr /\ operands'[j] = operands[j]
      BY <2>2, <1>4, <1>5 DEF Placed
    <3>2. operands[j][k] \in Usable \cup RemovedAllocas
      BY <3>1 DEF OnlyAllocasDangle
    <3>3. [user |-> j, arg_no |-> k] \in use_list[operands[j][k]]
      BY <3>1 DEF Complete
    <3>4. QED
      BY <3>1, <3>2, <3>3, <1>6, PlacedFacts
  <2>3. QED
    BY <2>1, <2>2
<1>8. Sound'
  <2> SUFFICES ASSUME NEW v \in Usable', NEW u \in use_list'[v]
               PROVE  /\ u.user \in Placed'
                      /\ u.arg_no \in DOMAIN operands'[u.user]
                      /\ operands'[u.user][u.arg_no] = v
    BY DEF Sound
  <2>0. v \in Value
    BY DEF Usable, Value
  <2>1. CASE u \in use_list[v]
    <3>1. v \in Usable
      BY <1>4, <2>0, <2>1 DEF Fresh, Create, Usable, Value
    <3>2. /\ u.user \in Placed
          /\ u.arg_no \in DOMAIN operands[u.user]
          /\ operands[u.user][u.arg_no] = v
      BY <3>1, <2>1 DEF Sound
    <3>3. QED
      BY <3>2, <1>4, <1>5 DEF Placed
  <2>2. CASE u \notin use_list[v]
    <3>1. PICK k \in DOMAIN ops : ops[k] = v /\ u = [user |-> i, arg_no |-> k]
      BY <2>0, <2>2, <1>6
    <3>2. QED
      BY <3>1, <1>4, <1>5
  <2>3. QED
    BY <2>1, <2>2
<1>9. OnlyAllocasDangle'
  BY <1>2, <1>4, <1>5 DEF OnlyAllocasDangle, Placed
<1>10. NeverAborts'
  BY DEF Create, NeverAborts
<1>11. Fresh'
  <2> SUFFICES ASSUME NEW j \in Instr, status'[j] = "new"
               PROVE  /\ operands'[j] = << >>
                      /\ j \notin Void => use_list'[j] = {}
    BY DEF Fresh
  <2>1. j # i /\ status[j] = "new"
    BY DEF Create, TypeOK
  <2>2. operands'[j] = << >>
    BY <2>1, <1>5 DEF Fresh
  <2>3. ASSUME j \notin Void PROVE use_list'[j] = {}
    <3>1. j \in Value /\ j \notin Usable
      BY <2>1, <2>3, UseDefAssumption DEF Value, Usable
    <3>2. {k \in DOMAIN ops : ops[k] = j} = {}
      BY <3>1, <1>2
    <3>3. QED
      BY <3>1, <3>2, <2>1, <2>3, <1>6 DEF Fresh
  <2>4. QED
    BY <2>2, <2>3
<1>12. QED
  BY <1>3, <1>7, <1>8, <1>9, <1>10, <1>11

LEMMA CreatePhiStep ==
    ASSUME IInv, NEW i \in Instr, CreatePhi(i)
    PROVE  IInv'
<1> USE DEF IInv
<1>1. TypeOK' /\ NeverAborts' /\ Fresh'
  BY DEF CreatePhi, TypeOK, NeverAborts, Fresh
<1>2. /\ Placed' = Placed \cup {i}
      /\ i \notin Placed
      /\ Usable' = Usable \cup {i}
      /\ RemovedAllocas' = RemovedAllocas
      /\ i \in Value
      /\ operands[i] = << >>
      /\ use_list[i] = {}
  BY UseDefAssumption DEF CreatePhi, TypeOK, Placed, Usable, Value, Fresh, RemovedAllocas
<1>3. Complete' /\ OnlyAllocasDangle'
  BY <1>2 DEF CreatePhi, Complete, OnlyAllocasDangle
<1>4. Sound'
  BY <1>2 DEF CreatePhi, Sound
<1>5. QED
  BY <1>1, <1>3, <1>4

LEMMA AddPairStep ==
    ASSUME IInv, NEW i \in Instr, NEW w \in Usable, NEW b \in Block, AddPair(i, w, b)
    PROVE  IInv'
<1> USE DEF IInv
<1> DEFINE ops == operands[i] \o <<w, b>>
           n == Len(operands[i])
<1>1. b \in Usable /\ Usable \subseteq Value
  BY UseDefAssumption, PlacedFacts DEF Usable
<1>2. operands[i] \in Seq(Value) /\ n \in Nat /\ DOMAIN operands[i] = 1..n
  BY LenProperties DEF TypeOK
<1>3. /\ ops \in Seq(Value)
      /\ DOMAIN ops = 1..(n + 2)
      /\ \A k \in 1..n : ops[k] = operands[i][k]
      /\ ops[n + 1] = w
      /\ ops[n + 2] = b
  <2>1. <<w, b>> \in Seq(Value) /\ Len(<<w, b>>) = 2
    BY <1>1
  <2>2. ops \in Seq(Value) /\ Len(ops) = n + 2
    BY <2>1, <1>2, ConcatProperties
  <2>3. \A k \in 1..(n + 2) : ops[k] = IF k <= n THEN operands[i][k] ELSE <<w, b>>[k - n]
    BY <2>1, <1>2, ConcatProperties
  <2>4. QED
    BY <2>2, <2>3, <1>2, LenProperties
<1>4. \A k \in DOMAIN ops : k >= n + 1 => ops[k] \in Usable
  BY <1>1, <1>2, <1>3
<1>5. /\ Placed' = Placed
      /\ Usable' = Usable
      /\ RemovedAllocas' = RemovedAllocas
      /\ i \in Placed
      /\ status' = status
      /\ status[i] = "placed"
  BY DEF AddPair, Placed, Usable, RemovedAllocas
<1>6. \A j \in Instr : operands'[j] = IF j = i THEN ops ELSE operands[j]
  BY DEF AddPair, TypeOK
<1>7. \A v \in Value : use_list'[v] = use_list[v] \cup
         {[user |-> i, arg_no |-> k] : k \in {j \in DOMAIN ops : j >= n + 1 /\ ops[j] = v}}
  BY DEF AddPair, AddUses
<1>8. use_list' = AddUses(i, ops, n + 1) /\ operands' = [operands EXCEPT ![i] = ops]
  BY DEF AddPair
<1> HIDE DEF ops, n
<1>9. TypeOK'
  <2>1. n + 1 \in Nat
    BY <1>2
  <2>2. AddUses(i, ops, n + 1) \in [Value -> SUBSET Record]
    BY <2>1, <1>3, AddUsesType
  <2>3. QED
    BY <2>2, <1>3, <1>5, <1>8 DEF AddPair, TypeOK
<1>10. Complete'
  <2> SUFFICES ASSUME NEW j \in Placed, NEW k \in DOMAIN operands'[j]
               PROVE  [user |-> j, arg_no |-> k] \in use_list'[operands'[j][k]]
    BY <1>5 DEF Complete
  <2>0. j \in Instr
    BY DEF Placed
  <2>1. CASE j = i /\ k >= n + 1
    <3>1. k \in DOMAIN ops /\ operands'[j][k] = ops[k] /\ ops[k] \in Value
      BY <2>1, <1>1, <1>4, <1>6
    <3>2. QED
      BY <3>1, <2>1, <1>7
  <2>2. CASE j # i \/ (j = i /\ ~(k >= n + 1))
    <3>1. k \in DOMAIN operands[j] /\ operands'[j][k] = operands[j][k]
      BY <2>0, <2>2, <1>2, <1>3, <1>6
    <3>2. [user |-> j, arg_no |-> k] \in use_list[operands[j][k]]
      BY <3>1 DEF Complete
    <3>3. operands[j][k] \in Value
      BY <3>1, PlacedFacts DEF OnlyAllocasDangle
    <3>4. QED
      BY <3>1, <3>2, <3>3, <1>7
  <2>3. QED
    BY <2>1, <2>2
<1>11. Sound'
  <2> SUFFICES ASSUME NEW v \in Usable, NEW u \in use_list'[v]
               PROVE  /\ u.user \in Placed
                      /\ u.arg_no \in DOMAIN operands'[u.user]
                      /\ operands'[u.user][u.arg_no] = v
    BY <1>5 DEF Sound
  <2>0. v \in Value
    BY <1>1
  <2>1. CASE u \in use_list[v]
    <3>1. /\ u.user \in Placed
          /\ u.arg_no \in DOMAIN operands[u.user]
          /\ operands[u.user][u.arg_no] = v
      BY <2>1 DEF Sound
    <3>2. u.user \in Instr
      BY <3>1 DEF Placed
    <3>3. CASE u.user = i
      BY <3>1, <3>2, <3>3, <1>2, <1>3, <1>6
    <3>4. CASE u.user # i
      BY <3>1, <3>2, <3>4, <1>6
    <3>5. QED
      BY <3>3, <3>4
  <2>2. CASE u \notin use_list[v]
    <3>1. PICK k \in DOMAIN ops : ops[k] = v /\ u = [user |-> i, arg_no |-> k]
      BY <2>0, <2>2, <1>7
    <3>2. QED
      BY <3>1, <1>5, <1>6
  <2>3. QED
    BY <2>1, <2>2
<1>12. OnlyAllocasDangle'
  <2> SUFFICES ASSUME NEW j \in Placed, NEW k \in DOMAIN operands'[j]
               PROVE  operands'[j][k] \in Usable \cup RemovedAllocas
    BY <1>5 DEF OnlyAllocasDangle
  <2>1. CASE j = i
    <3>1. k \in 1..(n + 2) /\ operands'[j][k] = ops[k]
      BY <2>1, <1>3, <1>6
    <3>2. CASE k \in 1..n
      BY <3>1, <3>2, <2>1, <1>2, <1>3 DEF OnlyAllocasDangle
    <3>3. CASE k \notin 1..n
      BY <3>1, <3>3, <1>2, <1>3, <1>4
    <3>4. QED
      BY <3>2, <3>3
  <2>2. CASE j # i
    BY <2>2, <1>6 DEF OnlyAllocasDangle, Placed
  <2>3. QED
    BY <2>1, <2>2
<1>13. Fresh'
  <2> SUFFICES ASSUME NEW j \in Instr, status[j] = "new"
               PROVE  /\ operands'[j] = << >>
                      /\ j \notin Void => use_list'[j] = {}
    BY <1>5 DEF Fresh
  <2>1. j # i
    BY <1>5
  <2>2. ASSUME j \notin Void PROVE use_list'[j] = {}
    <3>1. j \in Value /\ j \notin Usable
      BY <2>2, UseDefAssumption DEF Value, Usable
    <3>2. {k \in DOMAIN ops : k >= n + 1 /\ ops[k] = j} = {}
      BY <3>1, <1>4
    <3>3. QED
      BY <3>1, <3>2, <2>2, <1>7 DEF Fresh
  <2>3. QED
    BY <2>1, <2>2, <1>6 DEF Fresh
<1>14. NeverAborts'
  BY DEF AddPair, NeverAborts
<1>15. QED
  BY <1>9, <1>10, <1>11, <1>12, <1>13, <1>14

\* A function over the positions of a sequence is a sequence.
LEMMA MapIsSeq ==
    ASSUME NEW S, NEW s \in Seq(S), NEW f, f \in [DOMAIN s -> S]
    PROVE  f \in Seq(S) /\ (s = << >> => f = << >>)
<1>1. DOMAIN s = 1..Len(s) /\ Len(s) \in Nat
  BY LenProperties
<1>2. f \in [1..Len(s) -> S]
  BY <1>1
<1>3. f \in Seq(S)
  BY <1>1, <1>2, SeqDef
<1>4. Len(f) = Len(s)
  BY <1>1, <1>2, <1>3, LenProperties
<1>5. s = << >> => f = << >>
  BY <1>3, <1>4, EmptySeq
<1>6. QED
  BY <1>3, <1>5

\* The use list of a usable value is exactly the set of its uses.
LEMMA UsesOfUsable ==
    ASSUME IInv, NEW old \in Usable
    PROVE  /\ \A u \in use_list[old] :
                 /\ u = [user |-> u.user, arg_no |-> u.arg_no]
                 /\ u.user \in Placed
                 /\ u.arg_no \in DOMAIN operands[u.user]
                 /\ operands[u.user][u.arg_no] = old
           /\ \A j \in Instr : \A k \in DOMAIN operands[j] :
                 [user |-> j, arg_no |-> k] \in use_list[old]
                     <=> j \in Placed /\ operands[j][k] = old
<1> USE DEF IInv
<1>1. ASSUME NEW u \in use_list[old]
      PROVE  /\ u = [user |-> u.user, arg_no |-> u.arg_no]
             /\ u.user \in Placed
             /\ u.arg_no \in DOMAIN operands[u.user]
             /\ operands[u.user][u.arg_no] = old
  <2>1. old \in Value
    BY PlacedFacts
  <2>2. u \in Record
    BY <2>1 DEF TypeOK
  <2>3. QED
    BY <2>2 DEF Sound, Record
<1>2. ASSUME NEW j \in Instr, NEW k \in DOMAIN operands[j]
      PROVE  [user |-> j, arg_no |-> k] \in use_list[old]
                 <=> j \in Placed /\ operands[j][k] = old
  BY <1>1 DEF Complete
<1>3. QED
  BY <1>1, <1>2

\* What replace_all_use_with does to the operands.
LEMMA ReplaceOperands ==
    ASSUME IInv, NEW old \in Instr, NEW new \in Usable \ {old}, Replace(old, new)
    PROVE  /\ old \in Usable
           /\ aborted' = aborted
           /\ status' = [status EXCEPT ![old] = "waiting"]
           /\ use_list' = [use_list EXCEPT ![new] = @ \cup use_list[old]]
           /\ operands' = [i \in Instr |->
                 IF i \in Placed
                 THEN [k \in DOMAIN operands[i] |->
                         IF operands[i][k] = old THEN new ELSE operands[i][k]]
                 ELSE operands[i]]
<1> USE DEF IInv
<1>1. old \in Usable
  BY DEF Replace, Usable
<1>2. \A u \in use_list[old] : u.arg_no \in DOMAIN operands[u.user]
  BY <1>1, UsesOfUsable
<1>3. /\ aborted' = aborted
      /\ status' = [status EXCEPT ![old] = "waiting"]
      /\ use_list' = [use_list EXCEPT ![new] = @ \cup use_list[old]]
      /\ operands' = [i \in Instr |-> [k \in DOMAIN operands[i] |->
            IF [user |-> i, arg_no |-> k] \in use_list[old] THEN new ELSE operands[i][k]]]
  BY <1>2 DEF Replace, SetOperands
<1>4. ASSUME NEW i \in Instr
      PROVE  [k \in DOMAIN operands[i] |->
                IF [user |-> i, arg_no |-> k] \in use_list[old] THEN new ELSE operands[i][k]]
             = IF i \in Placed
               THEN [k \in DOMAIN operands[i] |->
                       IF operands[i][k] = old THEN new ELSE operands[i][k]]
               ELSE operands[i]
  <2>1. \A k \in DOMAIN operands[i] :
           [user |-> i, arg_no |-> k] \in use_list[old] <=> i \in Placed /\ operands[i][k] = old
    BY <1>1, UsesOfUsable
  <2>2. CASE i \in Placed
    BY <2>1, <2>2
  <2>3. CASE i \notin Placed
    <3>1. [k \in DOMAIN operands[i] |->
              IF [user |-> i, arg_no |-> k] \in use_list[old] THEN new ELSE operands[i][k]]
          = [k \in DOMAIN operands[i] |-> operands[i][k]]
      BY <2>1, <2>3
    <3>2. operands[i] \in [1..Len(operands[i]) -> Value]
      BY LenProperties DEF TypeOK
    <3>3. [k \in DOMAIN operands[i] |-> operands[i][k]] = operands[i]
      BY <3>2
    <3>4. QED
      BY <3>1, <3>3, <2>3
  <2>4. QED
    BY <2>2, <2>3
<1>5. QED
  BY <1>1, <1>3, <1>4

LEMMA ReplaceStep ==
    ASSUME IInv, NEW old \in Instr, NEW new \in Usable \ {old}, Replace(old, new)
    PROVE  IInv'
<1> USE DEF IInv
<1>1. /\ old \in Usable
      /\ old \in Value
      /\ new \in Value
      /\ status' = [status EXCEPT ![old] = "waiting"]
      /\ use_list' = [use_list EXCEPT ![new] = @ \cup use_list[old]]
      /\ aborted' = aborted
  BY ReplaceOperands, PlacedFacts
<1>2. \A j \in Instr : operands'[j] =
         IF j \in Placed
         THEN [k \in DOMAIN operands[j] |->
                 IF operands[j][k] = old THEN new ELSE operands[j][k]]
         ELSE operands[j]
  BY ReplaceOperands
<1>3. /\ Placed' = Placed
      /\ Usable' = Usable \ {old}
      /\ RemovedAllocas' = RemovedAllocas
  BY <1>1, UseDefAssumption DEF Replace, TypeOK, Placed, Usable, RemovedAllocas
<1>4. \A v \in Value : use_list'[v] =
         IF v = new THEN use_list[new] \cup use_list[old] ELSE use_list[v]
  BY <1>1 DEF TypeOK
<1>5. \A j \in Placed :
         /\ j \in Instr
         /\ DOMAIN operands'[j] = DOMAIN operands[j]
         /\ \A k \in DOMAIN operands[j] :
              operands'[j][k] = IF operands[j][k] = old THEN new ELSE operands[j][k]
  BY <1>2 DEF Placed
<1>6. TypeOK'
  <2>0. use_list[new] \cup use_list[old] \in SUBSET Record
    BY <1>1 DEF TypeOK
  <2>1. use_list' \in [Value -> SUBSET Record] /\ aborted' \in BOOLEAN
    BY <1>1, <2>0 DEF TypeOK, NeverAborts
  <2>2. status' \in [Instr -> {"new", "placed", "waiting", "deleted"}]
    BY <1>1 DEF TypeOK
  <2>3. ASSUME NEW j \in Instr PROVE operands'[j] \in Seq(Value)
    <3>1. operands[j] \in Seq(Value)
      BY DEF TypeOK
    <3>2. \A k \in DOMAIN operands[j] : operands[j][k] \in Value
      BY <3>1, LenProperties
    <3>3. CASE j \in Placed
      <4>1. operands'[j] \in [DOMAIN operands[j] -> Value]
        BY <3>2, <3>3, <1>1, <1>2
      <4>2. QED
        BY <4>1, <3>1, MapIsSeq
    <3>4. CASE j \notin Placed
      BY <3>1, <3>4, <1>2
    <3>5. QED
      BY <3>3, <3>4
  <2>4. operands' = [j \in Instr |-> operands'[j]]
    BY ReplaceOperands
  <2>5. QED
    BY <2>1, <2>2, <2>3, <2>4 DEF TypeOK
<1>7. Complete'
  <2> SUFFICES ASSUME NEW j \in Placed, NEW k \in DOMAIN operands[j]
               PROVE  [user |-> j, arg_no |-> k] \in use_list'[operands'[j][k]]
    BY <1>3, <1>5 DEF Complete
  <2>1. [user |-> j, arg_no |-> k] \in use_list[operands[j][k]] /\ operands[j][k] \in Value
    BY PlacedFacts DEF Complete, OnlyAllocasDangle
  <2>2. CASE operands[j][k] = old
    BY <2>1, <2>2, <1>1, <1>4, <1>5
  <2>3. CASE operands[j][k] # old
    BY <2>1, <2>3, <1>4, <1>5
  <2>4. QED
    BY <2>2, <2>3
<1>8. Sound'
  <2> SUFFICES ASSUME NEW v \in Usable, v # old, NEW u \in use_list'[v]
               PROVE  /\ u.user \in Placed
                      /\ u.arg_no \in DOMAIN operands'[u.user]
                      /\ operands'[u.user][u.arg_no] = v
    BY <1>3 DEF Sound
  <2>0. v \in Value
    BY PlacedFacts
  <2>1. CASE u \in use_list[v]
    BY <2>1, <1>5, UsesOfUsable
  <2>2. CASE u \notin use_list[v]
    <3>1. v = new /\ u \in use_list[old]
      BY <2>0, <2>2, <1>4
    <3>2. QED
      BY <3>1, <1>1, <1>5, UsesOfUsable
  <2>3. QED
    BY <2>1, <2>2
<1>9. OnlyAllocasDangle'
  BY <1>3, <1>5 DEF OnlyAllocasDangle
<1>10. Fresh'
  <2> SUFFICES ASSUME NEW j \in Instr, status'[j] = "new"
               PROVE  /\ operands'[j] = << >>
                      /\ j \notin Void => use_list'[j] = {}
    BY DEF Fresh
  <2>1. status[j] = "new" /\ j \notin Placed /\ j # new
    BY <1>1, UseDefAssumption DEF TypeOK, Placed, Usable
  <2>2. QED
    BY <2>1, <1>2, <1>4 DEF Fresh, Value
<1>11. NeverAborts'
  BY <1>1 DEF NeverAborts, TypeOK
<1>12. QED
  BY <1>6, <1>7, <1>8, <1>9, <1>10, <1>11

LEMMA QueueStoreStep ==
    ASSUME IInv, NEW i \in Instr, QueueStore(i)
    PROVE  IInv'
<1> USE DEF IInv
<1>1. TypeOK' /\ NeverAborts' /\ Fresh'
  BY DEF QueueStore, TypeOK, NeverAborts, Fresh
<1>2. Placed' = Placed /\ Usable' = Usable /\ RemovedAllocas' = RemovedAllocas
  BY UseDefAssumption DEF QueueStore, TypeOK, Placed, Usable, RemovedAllocas
<1>3. Complete' /\ OnlyAllocasDangle' /\ Sound'
  BY <1>2 DEF QueueStore, Complete, OnlyAllocasDangle, Sound
<1>4. QED
  BY <1>1, <1>3

LEMMA DeleteStep ==
    ASSUME IInv, NEW i \in Instr, Delete(i)
    PROVE  IInv'
<1> USE DEF IInv
<1> DEFINE ops == {operands[i][k] : k \in DOMAIN operands[i]}
<1>1. /\ Placed' = Placed \ {i}
      /\ Usable' = Usable
      /\ RemovedAllocas \subseteq RemovedAllocas'
      /\ i \in Placed
      /\ operands' = operands
  BY UseDefAssumption DEF Delete, TypeOK, Placed, Usable, RemovedAllocas
<1>2. \A v \in Value : use_list'[v] =
         IF v \in ops THEN {u \in use_list[v] : u.user # i} ELSE use_list[v]
  BY DEF Delete, RemoveUses
<1>3. TypeOK'
  <2>1. use_list' \in [Value -> SUBSET Record]
    BY DEF Delete, RemoveUses, TypeOK
  <2>2. QED
    BY <2>1 DEF Delete, TypeOK
<1>4. NeverAborts'
  BY DEF Delete, NeverAborts
<1>5. Complete'
  <2> SUFFICES ASSUME NEW j \in Placed, j # i, NEW k \in DOMAIN operands[j]
               PROVE  [user |-> j, arg_no |-> k] \in use_list'[operands[j][k]]
    BY <1>1 DEF Complete
  <2>1. [user |-> j, arg_no |-> k] \in use_list[operands[j][k]] /\ operands[j][k] \in Value
    BY PlacedFacts DEF Complete, OnlyAllocasDangle
  <2>2. QED
    BY <2>1, <1>2
<1>6. Sound'
  <2> SUFFICES ASSUME NEW v \in Usable, NEW u \in use_list'[v]
               PROVE  /\ u.user \in Placed /\ u.user # i
                      /\ u.arg_no \in DOMAIN operands[u.user]
                      /\ operands[u.user][u.arg_no] = v
    BY <1>1 DEF Sound
  <2>1. v \in Value
    BY PlacedFacts
  <2>2. u \in use_list[v]
    BY <2>1, <1>2
  <2>3. /\ u.user \in Placed
        /\ u.arg_no \in DOMAIN operands[u.user]
        /\ operands[u.user][u.arg_no] = v
    BY <2>2 DEF Sound
  <2>4. u.user # i
    BY <2>1, <2>3, <1>2
  <2>5. QED
    BY <2>3, <2>4
<1>7. OnlyAllocasDangle'
  BY <1>1 DEF OnlyAllocasDangle
<1>8. Fresh'
  <2> SUFFICES ASSUME NEW j \in Instr, status[j] = "new"
               PROVE  /\ operands[j] = << >>
                      /\ j \notin Void => use_list'[j] = {}
    BY <1>1 DEF Fresh, Delete, TypeOK
  <2>1. QED
    BY <1>2 DEF Fresh, Value
<1>9. QED
  BY <1>3, <1>4, <1>5, <1>6, <1>7, <1>8

LEMMA RemoveAllocaStep ==
    ASSUME IInv, NEW i \in Instr, RemoveAlloca(i)
    PROVE  IInv'
<1> USE DEF IInv
<1> DEFINE ops == {operands[i][k] : k \in DOMAIN operands[i]}
<1>1. /\ Placed' = Placed \ {i}
      /\ Usable' \subseteq Usable
      /\ Usable \subseteq Usable' \cup {i}
      /\ RemovedAllocas' = RemovedAllocas \cup {i}
      /\ operands' = operands
  BY UseDefAssumption DEF RemoveAlloca, TypeOK, Placed, Usable, RemovedAllocas
<1>2. \A v \in Value : use_list'[v] =
         IF v \in ops THEN {u \in use_list[v] : u.user # i} ELSE use_list[v]
  BY DEF RemoveAlloca, RemoveUses
<1>3. TypeOK'
  <2>1. use_list' \in [Value -> SUBSET Record]
    BY DEF RemoveAlloca, RemoveUses, TypeOK
  <2>2. QED
    BY <2>1 DEF RemoveAlloca, TypeOK
<1>4. NeverAborts'
  BY DEF RemoveAlloca, NeverAborts
<1>5. Complete'
  <2> SUFFICES ASSUME NEW j \in Placed, j # i, NEW k \in DOMAIN operands[j]
               PROVE  [user |-> j, arg_no |-> k] \in use_list'[operands[j][k]]
    BY <1>1 DEF Complete
  <2>1. [user |-> j, arg_no |-> k] \in use_list[operands[j][k]] /\ operands[j][k] \in Value
    BY PlacedFacts DEF Complete, OnlyAllocasDangle
  <2>2. QED
    BY <2>1, <1>2
<1>6. Sound'
  <2> SUFFICES ASSUME NEW v \in Usable, NEW u \in use_list'[v]
               PROVE  /\ u.user \in Placed /\ u.user # i
                      /\ u.arg_no \in DOMAIN operands[u.user]
                      /\ operands[u.user][u.arg_no] = v
    BY <1>1 DEF Sound
  <2>1. v \in Value
    BY PlacedFacts
  <2>2. u \in use_list[v]
    BY <2>1, <1>2
  <2>3. /\ u.user \in Placed
        /\ u.arg_no \in DOMAIN operands[u.user]
        /\ operands[u.user][u.arg_no] = v
    BY <2>2 DEF Sound
  <2>4. u.user # i
    BY <2>1, <2>3, <1>2
  <2>5. QED
    BY <2>3, <2>4
<1>7. OnlyAllocasDangle'
  BY <1>1 DEF OnlyAllocasDangle
<1>8. Fresh'
  <2> SUFFICES ASSUME NEW j \in Instr, status[j] = "new"
               PROVE  /\ operands[j] = << >>
                      /\ j \notin Void => use_list'[j] = {}
    BY <1>1 DEF Fresh, RemoveAlloca, TypeOK
  <2>1. QED
    BY <1>2 DEF Fresh, Value
<1>9. QED
  BY <1>3, <1>4, <1>5, <1>6, <1>7, <1>8

-----------------------------------------------------------------------------
LEMMA NextIInv == IInv /\ [Next]_vars => IInv'
<1> SUFFICES ASSUME IInv, [Next]_vars PROVE IInv'
  OBVIOUS
<1>1. CASE \E i \in Instr : \E v \in Scalar, w \in Usable : Create(i, <<v, w>>)
  <2>1. PICK i \in Instr, v \in Scalar, w \in Usable : Create(i, <<v, w>>)
    BY <1>1
  <2>2. <<v, w>> \in Seq(Usable)
    BY PlacedFacts
  <2>3. QED
    BY <2>1, <2>2, CreateStep
<1>2. CASE \E i \in Instr : \E v \in Usable : Create(i, <<v>>)
  <2>1. \A v \in Usable : <<v>> \in Seq(Usable)
    OBVIOUS
  <2>2. QED
    BY <1>2, <2>1, CreateStep
<1>3. CASE \E i \in Instr : Create(i, << >>)
  <2>1. << >> \in Seq(Usable)
    BY EmptySeq
  <2>2. QED
    BY <1>3, <2>1, CreateStep
<1>4. CASE \E i \in Instr : CreatePhi(i)
  BY <1>4, CreatePhiStep
<1>5. CASE \E i \in Instr, v \in Scalar, b \in Block : AddPair(i, v, b)
  BY <1>5, AddPairStep, PlacedFacts
<1>6. CASE \E old \in Instr : \E new \in Scalar \ {old} : Replace(old, new)
  BY <1>6, ReplaceStep, PlacedFacts
<1>7. CASE \E i \in Instr : QueueStore(i) \/ Delete(i) \/ RemoveAlloca(i)
  BY <1>7, QueueStoreStep, DeleteStep, RemoveAllocaStep
<1>8. CASE UNCHANGED vars
  BY <1>8 DEF vars, IInv, TypeOK, Complete, Sound, OnlyAllocasDangle, Fresh, NeverAborts,
              Placed, Usable, RemovedAllocas
<1>9. QED
  BY <1>1, <1>2, <1>3, <1>4, <1>5, <1>6, <1>7, <1>8 DEF Next

\* The invariant of the use-def layer, for every set of instructions.
THEOREM Invariance == Spec => []IInv
<1>1. Init => IInv
  BY InitIInv
<1>2. IInv /\ [Next]_vars => IInv'
  BY NextIInv
<1>3. QED
  BY <1>1, <1>2, PTL DEF Spec

\* Every operand of an instruction in a block stands in the use list of its
\* value (User::set_operand, add_operand, Value::remove_use).
THEOREM UseListsComplete == Spec => []Complete
BY Invariance, PTL DEF IInv

\* The variables have their types: operands are sequences of values, the use
\* lists sets of records.
THEOREM TypeCorrect == Spec => []TypeOK
<1>1. IInv => TypeOK
  BY DEF IInv
<1>2. QED
  BY Invariance, <1>1, PTL

\* No use list of a value that may still be replaced has a stale record, so
\* replace_all_use_with overwrites no operand that is another value.
THEOREM UseListsSound == Spec => []Sound
<1>1. IInv => Sound
  BY DEF IInv
<1>2. QED
  BY Invariance, <1>1, PTL

\* replace_all_use_with and the wait_delete queues leave no instruction in a
\* block with an operand that has been replaced or removed; only remove_alloca
\* does, and then the operand is one of the allocas it deleted.
THEOREM OnlyAllocasLeftBehind == Spec => []OnlyAllocasDangle
BY Invariance, PTL DEF IInv

\* The assertion of set_operand holds under the calls of Mem2Reg.
THEOREM SetOperandInRange == Spec => []NeverAborts
BY Invariance, PTL DEF IInv

-----------------------------------------------------------------------------
LEMMA PlacedIsPlaced ==
    DU!Placed = Placed /\ DU!Usable = Usable /\ DU!Scalar = Scalar
BY DEF DU!Placed, DU!Usable, DU!Scalar, Placed, Usable, Scalar

LEMMA StepRefines == IInv /\ [Next]_vars => [DU!Next]_DU!absvars
<1> SUFFICES ASSUME IInv, [Next]_vars PROVE [DU!Next]_DU!absvars
  OBVIOUS
<1> USE PlacedIsPlaced
<1>1. ASSUME NEW i \in Instr, NEW v \in Scalar, NEW w \in Usable, Create(i, <<v, w>>)
      PROVE  DU!Next
  <2>1. DU!Create(i, <<v, w>>)
    BY <1>1 DEF Create, DU!Create
  <2>2. QED
    BY <2>1 DEF DU!Next
<1>7. ASSUME NEW i \in Instr, NEW v \in Usable, Create(i, <<v>>)
      PROVE  DU!Next
  <2>1. DU!Create(i, <<v>>)
    BY <1>7 DEF Create, DU!Create
  <2>2. QED
    BY <2>1 DEF DU!Next
<1>8. ASSUME NEW i \in Instr, Create(i, << >>)
      PROVE  DU!Next
  <2>1. DU!Create(i, << >>)
    BY <1>8 DEF Create, DU!Create
  <2>2. QED
    BY <2>1 DEF DU!Next
<1>2. ASSUME NEW i \in Instr, CreatePhi(i) PROVE DU!Next
  BY <1>2 DEF CreatePhi, DU!CreatePhi, DU!Next
<1>3. ASSUME NEW i \in Instr, NEW v \in Scalar, NEW b \in Block, AddPair(i, v, b)
      PROVE  DU!Next
  BY <1>3 DEF AddPair, DU!AddPair, DU!Next
<1>4. ASSUME NEW old \in Instr, NEW new \in Scalar \ {old}, Replace(old, new)
      PROVE  DU!Next
  <2>1. /\ status' = [status EXCEPT ![old] = "waiting"]
        /\ operands' = [i \in Instr |->
              IF i \in Placed
              THEN [k \in DOMAIN operands[i] |->
                      IF operands[i][k] = old THEN new ELSE operands[i][k]]
              ELSE operands[i]]
    BY <1>4, ReplaceOperands, PlacedFacts
  <2>2. status[old] = "placed" /\ old \notin Void \cup Alloca
    BY <1>4 DEF Replace
  <2>3. DU!Replace(old, new)
    BY <2>1, <2>2 DEF DU!Replace
  <2>4. QED
    BY <2>3 DEF DU!Next
<1>5. ASSUME NEW i \in Instr, QueueStore(i) \/ Delete(i) \/ RemoveAlloca(i)
      PROVE  DU!Next
  BY <1>5 DEF QueueStore, Delete, RemoveAlloca, DU!QueueStore, DU!Delete, DU!RemoveAlloca,
              DU!Next
<1>6. CASE UNCHANGED vars
  BY <1>6 DEF vars, DU!absvars
<1>9. QED
  BY <1>1, <1>2, <1>3, <1>4, <1>5, <1>6, <1>7, <1>8 DEF Next

\* The use lists implement substitution: under the calls of Mem2Reg the layer
\* behaves as DefUse, which has no use lists.
THEOREM Refinement == Spec => RefinesDefUse
<1>1. Init => DU!Init
  BY DEF Init, DU!Init
<1>2. IInv /\ [Next]_vars => [DU!Next]_DU!absvars
  BY StepRefines
<1>3. QED
  BY <1>1, <1>2, Invariance, PTL DEF Spec, RefinesDefUse, DU!Spec
=============================================================================
