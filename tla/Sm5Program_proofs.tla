--------------------------- MODULE Sm5Program_proofs ---------------------------
(***************************************************************************)
(* For every recipe, every parser and serializer, and every container of   *)
(* which the parser makes a sequence of instructions: no register is       *)
(* declared twice by a recipe, the original instructions stay in their     *)
(* order behind declarations that stay in front, and, when templates come  *)
(* first, the temporaries of a recipe, arrays of them included, overlap    *)
(* with nothing and are covered by what is written; and what is written is *)
(* a well-formed container whose checksum takes all of it.                 *)
(***************************************************************************)
EXTENDS Sm5Program, SequenceTheorems, FiniteSetTheorems, WellFoundedInduction, TLAPS

-----------------------------------------------------------------------------
(* Least and greatest naturals, and induction.                             *)

(* The order of the naturals is well-founded.                              *)
LEMMA LessThanWF == IsWellFoundedOn({ss \in Nat \X Nat : ss[1] < ss[2]}, Nat)
BY NatLessThanWellFounded DEF OpToRel

(* Min of a set of naturals is its least element.                          *)
LEMMA MinOf ==
  ASSUME NEW S \in SUBSET Nat, S # {}
  PROVE  Min(S) \in S /\ \A y \in S : Min(S) <= y
<1> DEFINE R == {ss \in Nat \X Nat : ss[1] < ss[2]}
<1>1. IsWellFoundedOn(R, Nat)
  BY LessThanWF
<1> HIDE DEF R
<1>2. PICK x \in S : \A y \in S : <<y, x>> \notin R
  BY <1>1, WFMin
<1>3. ASSUME NEW y \in S PROVE x <= y
  <2>1. x \in Nat /\ y \in Nat
    OBVIOUS
  <2>2. <<y, x>> \notin R
    BY <1>2
  <2>3. <<y, x>> \in Nat \X Nat /\ <<y, x>>[1] = y /\ <<y, x>>[2] = x
    BY <2>1
  <2>4. ~ (y < x)
    BY <2>2, <2>3 DEF R
  <2> QED BY <2>1, <2>4
<1> QED BY <1>3 DEF Min

(* Max of a bounded set of naturals is its greatest element.               *)
LEMMA MaxOf ==
  ASSUME NEW n \in Nat, NEW S \in SUBSET (0..n), S # {}
  PROVE  Max(S) \in S /\ \A y \in S : Max(S) >= y
<1> DEFINE T == {n - x : x \in S}
<1>1. T \in SUBSET Nat /\ T # {}
  <2>1. \A x \in S : n - x \in Nat
    OBVIOUS
  <2>2. PICK x \in S : TRUE
    OBVIOUS
  <2>3. n - x \in T
    OBVIOUS
  <2> QED BY <2>1, <2>3
<1>2. Min(T) \in T /\ \A y \in T : Min(T) <= y
  BY <1>1, MinOf
<1>3. PICK x \in S : Min(T) = n - x
  BY <1>2
<1>4. \A y \in S : x >= y
  BY <1>2, <1>3
<1> QED BY <1>4 DEF Max

(* Induction over a set of naturals.                                       *)
LEMMA SetInduction ==
  ASSUME NEW T \in SUBSET Nat, 0 \in T, \A n \in Nat : n \in T => n + 1 \in T
  PROVE  T = Nat
<1> DEFINE S == Nat \ T
<1>1. SUFFICES ASSUME S # {} PROVE FALSE
  OBVIOUS
<1>2. Min(S) \in S /\ \A y \in S : Min(S) <= y
  <2>1. S \in SUBSET Nat
    OBVIOUS
  <2> HIDE DEF S
  <2> QED BY <1>1, <2>1, MinOf
<1>3. PICK x : x = Min(S)
  OBVIOUS
<1>4. x \in Nat /\ x # 0 /\ x \notin T /\ x - 1 \in Nat /\ \A y \in S : x <= y
  BY <1>2, <1>3
<1>5. x - 1 \in T
  BY <1>4
<1> QED BY <1>4, <1>5

-----------------------------------------------------------------------------
(* Sequences, and how the instructions of a program change.                *)

IsSequence(p) == \E S : p \in Seq(S)

(* q is p with `new' behind its first k elements.                          *)
Inserted(p, q, k, new) ==
  /\ k \in 0..Len(p)
  /\ IsSequence(q) /\ Len(q) = Len(p) + 1
  /\ \A j \in 1..Len(q) :
       q[j] = IF j <= k THEN p[j] ELSE IF j = k + 1 THEN new ELSE p[j - 1]

(* q is p with `new' in place of its dcl_temps at k.                       *)
Replaced(p, q, k, new) ==
  /\ k \in 1..Len(p) /\ p[k].op = "dcl_temps"
  /\ IsSequence(q) /\ Len(q) = Len(p)
  /\ \A j \in 1..Len(q) : q[j] = IF j = k THEN new ELSE p[j]

LEMMA SequenceDomain ==
  ASSUME NEW p, IsSequence(p)
  PROVE  Len(p) \in Nat /\ DOMAIN p = 1..Len(p)
BY LenProperties DEF IsSequence

LEMMA HeadTail ==
  ASSUME NEW p, IsSequence(p), p # <<>>
  PROVE  /\ 1 \in DOMAIN p /\ Head(p) = p[1]
         /\ IsSequence(Tail(p)) /\ Len(Tail(p)) = Len(p) - 1
         /\ \A k \in DOMAIN Tail(p) : k + 1 \in DOMAIN p /\ Tail(p)[k] = p[k + 1]
<1>1. PICK S : p \in Seq(S)
  BY DEF IsSequence
<1>2. Head(p) = p[1] /\ Tail(p) \in Seq(S) /\ Len(Tail(p)) = Len(p) - 1
      /\ \A k \in 1..Len(Tail(p)) : Tail(p)[k] = p[k + 1]
  BY <1>1, HeadTailProperties
<1>3. Len(p) \in Nat /\ DOMAIN p = 1..Len(p) /\ Len(p) # 0
  BY <1>1, LenProperties, EmptySeq
<1>4. DOMAIN Tail(p) = 1..Len(p) - 1
  BY <1>2, LenProperties
<1> QED BY <1>2, <1>3, <1>4 DEF IsSequence

(* LastOf is a place in the sequence, and holds one of the opcodes.        *)
LEMMA LastOfIn ==
  ASSUME NEW p, IsSequence(p), NEW ops
  PROVE  /\ LastOf(p, ops) \in 0..Len(p)
         /\ LastOf(p, ops) # 0 => p[LastOf(p, ops)].op \in ops
         /\ \A j \in DOMAIN p : p[j].op \in ops => j <= LastOf(p, ops)
<1> DEFINE at == {k \in DOMAIN p : p[k].op \in ops}
<1>1. Len(p) \in Nat /\ DOMAIN p = 1..Len(p)
  BY SequenceDomain
<1>2. LastOf(p, ops) = IF at = {} THEN 0 ELSE Max(at)
  BY DEF LastOf
<1>3. at \in SUBSET (0..Len(p)) /\ 0 \notin at
  BY <1>1
<1>4. CASE at = {}
  BY <1>1, <1>2, <1>4
<1>5. CASE at # {}
  <2> HIDE DEF at
  <2>1. Max(at) \in at /\ \A y \in at : Max(at) >= y
    BY <1>1, <1>3, <1>5, MaxOf
  <2>2. LastOf(p, ops) = Max(at)
    BY <1>2, <1>5
  <2> QED BY <1>1, <1>3, <2>1, <2>2 DEF at
<1> QED BY <1>4, <1>5

LEMMA InsertAfterInserts ==
  ASSUME NEW p, IsSequence(p), NEW ops, NEW new
  PROVE  Inserted(p, InsertAfter(p, ops, new), LastOf(p, ops), new)
<1>1. PICK S : p \in Seq(S)
  BY DEF IsSequence
<1>2. PICK k : k = LastOf(p, ops)
  OBVIOUS
<1>3. k \in 0..Len(p) /\ Len(p) \in Nat
  BY <1>2, LastOfIn, SequenceDomain
<1> DEFINE T == S \cup {new}
           front == SubSeq(p, 1, k)
           back == SubSeq(p, k + 1, Len(p))
           half == front \o <<new>>
           q == half \o back
<1>4. p \in Seq(T)
  BY <1>1, SeqMonotonic
<1>5. front \in Seq(T) /\ Len(front) = k /\ \A j \in 1..k : front[j] = p[j]
  BY <1>3, <1>4, SubSeqProperties
<1>6. back \in Seq(T) /\ Len(back) = Len(p) - k
      /\ \A j \in 1..Len(p) - k : back[j] = p[k + j]
  BY <1>3, <1>4, SubSeqProperties
<1> HIDE DEF front, back
<1>7. half \in Seq(T) /\ Len(half) = k + 1
      /\ \A j \in 1..k + 1 : half[j] = IF j <= k THEN p[j] ELSE new
  BY <1>3, <1>5
<1> HIDE DEF half
<1>8. q \in Seq(T) /\ Len(q) = Len(p) + 1
      /\ \A j \in 1..Len(p) + 1 : q[j] = IF j <= k + 1 THEN half[j] ELSE back[j - (k + 1)]
  <2>1. Len(half) + Len(back) = Len(p) + 1
    BY <1>3, <1>6, <1>7
  <2> QED BY <1>6, <1>7, <2>1, ConcatProperties
<1>9. \A j \in 1..Len(q) :
        q[j] = IF j <= k THEN p[j] ELSE IF j = k + 1 THEN new ELSE p[j - 1]
  <2> SUFFICES ASSUME NEW j \in 1..Len(q)
               PROVE  q[j] = IF j <= k THEN p[j] ELSE IF j = k + 1 THEN new ELSE p[j - 1]
    OBVIOUS
  <2>1. CASE j <= k + 1
    BY <1>3, <1>7, <1>8, <2>1
  <2>2. CASE j > k + 1
    <3>1. j - (k + 1) \in 1..Len(p) - k /\ k + (j - (k + 1)) = j - 1
      BY <1>3, <1>8, <2>2
    <3> QED BY <1>3, <1>6, <1>8, <2>2, <3>1
  <2> QED BY <1>3, <1>8, <2>1, <2>2
<1>10. InsertAfter(p, ops, new) = q
  BY <1>2 DEF InsertAfter, half, front, back
<1> HIDE DEF q
<1> QED BY <1>2, <1>3, <1>8, <1>9, <1>10 DEF Inserted, IsSequence

(* A dcl_temps declares the count it is made for.                          *)
LEMMA TempDeclarationOf ==
  ASSUME NEW n
  PROVE  /\ TempDeclaration(n).op = "dcl_temps"
         /\ Declares(TempDeclaration(n), {"dcl_temps"})
         /\ Register(TempDeclaration(n)) = n
<1> DEFINE entries == [k \in DOMAIN <<n>> |-> Entry("imm32", <<Value(<<n>>[k])>>, <<>>, <<>>)]
           operand == NumberOperand("temp", 0, <<n>>)
<1>1. DOMAIN <<n>> = 1..1 /\ <<n>>[1] = n
  OBVIOUS
<1>2. entries[1] = Entry("imm32", <<Value(n)>>, <<>>, <<>>) /\ 1 \in DOMAIN entries
  BY <1>1
<1>3. operand.entries = entries
  BY DEF NumberOperand
<1>4. entries # <<>>
  BY <1>2
<1>5. Entry("imm32", <<Value(n)>>, <<>>, <<>>).lo[1].mode = n
  BY DEF Entry, Value
<1>6. TempDeclaration(n).op = "dcl_temps" /\ TempDeclaration(n).operands = <<operand>>
  BY DEF TempDeclaration, Instruction
<1>7. <<operand>> # <<>> /\ <<operand>>[1] = operand
  OBVIOUS
<1> HIDE DEF entries, operand
<1>8. Declares(TempDeclaration(n), {"dcl_temps"})
  BY <1>3, <1>4, <1>6, <1>7 DEF Declares
<1>9. Register(TempDeclaration(n)) = n
  BY <1>2, <1>3, <1>5, <1>6, <1>7 DEF Register
<1> QED BY <1>6, <1>8, <1>9

(* What EnsureTempDeclaration does to a program.                           *)
LEMMA EnsureCases ==
  ASSUME NEW p, IsSequence(p), NEW n
  PROVE  LET q == EnsureTempDeclaration(p, n)
         IN \/ n = 0 /\ q = p
            \/ n # 0 /\ Inserted(p, q, LastOf(p, Declarations), TempDeclaration(n))
            \/ n # 0 /\ \E k : Replaced(p, q, k, TempDeclaration(n))
<1> DEFINE at == {k \in DOMAIN p : p[k].op = "dcl_temps"}
           q == EnsureTempDeclaration(p, n)
           new == TempDeclaration(n)
<1>1. q = IF n = 0 THEN p
          ELSE IF at = {} THEN InsertAfter(p, Declarations, new)
          ELSE [p EXCEPT ![Min(at)] = new]
  BY DEF EnsureTempDeclaration
<1>2. CASE n # 0 /\ at # {}
  <2>1. PICK S : p \in Seq(S)
    BY DEF IsSequence
  <2>2. Len(p) \in Nat /\ DOMAIN p = 1..Len(p)
    BY SequenceDomain
  <2>3. at \in SUBSET Nat
    BY <2>2
  <2>4. PICK k : k = Min(at)
    OBVIOUS
  <2>5. k \in at
    <3> HIDE DEF at
    <3> QED BY <1>2, <2>3, <2>4, MinOf
  <2>6. q = [p EXCEPT ![k] = new]
    BY <1>1, <1>2, <2>4
  <2>7. q \in Seq(S \cup {new}) /\ Len(q) = Len(p)
    <3>1. q = [j \in 1..Len(p) |-> IF j = k THEN new ELSE p[j]]
      BY <2>1, <2>2, <2>6
    <3>2. \A j \in 1..Len(p) : p[j] \in S
      BY <2>1, ElementOfSeq
    <3> QED BY <2>2, <3>1, <3>2
  <2>8. \A j \in 1..Len(q) : q[j] = IF j = k THEN new ELSE p[j]
    BY <2>2, <2>6, <2>7
  <2>9. k \in 1..Len(p) /\ p[k].op = "dcl_temps"
    BY <2>2, <2>5
  <2> HIDE DEF q, new, at
  <2>10. Replaced(p, q, k, new)
    BY <2>7, <2>8, <2>9 DEF Replaced, IsSequence
  <2> QED BY <1>2, <2>10 DEF q, new
<1>3. CASE n # 0 /\ at = {}
  BY <1>1, <1>3, InsertAfterInserts
<1> QED BY <1>1, <1>2, <1>3

-----------------------------------------------------------------------------
(* Registers.                                                              *)

LEMMA RegistersFinite ==
  ASSUME NEW p, IsSequence(p), NEW ops
  PROVE  IsFiniteSet(Registers(p, ops))
<1>1. Len(p) \in Nat /\ DOMAIN p = 1..Len(p)
  BY SequenceDomain
<1>2. IsFiniteSet(1..Len(p))
  BY <1>1, FS_Interval
<1>3. IsFiniteSet(Declaring(p, ops))
  BY <1>1, <1>2, FS_Subset DEF Declaring
<1> DEFINE f == [k \in Declaring(p, ops) |-> Register(p[k])]
<1>4. f \in Surjection(Declaring(p, ops), Registers(p, ops))
  BY DEF Surjection, Registers
<1> HIDE DEF f
<1> QED BY <1>3, <1>4, FS_Surjection

(* Below the number of taken registers and itself there is a free one.     *)
LEMMA SomeFree ==
  ASSUME NEW taken, IsFiniteSet(taken)
  PROVE  Cardinality(taken) \in Nat /\ 0..Cardinality(taken) \ taken # {}
<1>1. Cardinality(taken) \in Nat
  BY FS_CardinalityType
<1>2. IsFiniteSet(0..Cardinality(taken))
      /\ Cardinality(0..Cardinality(taken)) = Cardinality(taken) + 1
  BY <1>1, FS_Interval
<1>3. CASE 0..Cardinality(taken) \subseteq taken
  <2>1. Cardinality(0..Cardinality(taken)) <= Cardinality(taken)
    BY <1>3, FS_Subset
  <2> QED BY <1>1, <1>2, <2>1
<1> QED BY <1>1, <1>3

(* The register that is found is not taken, and not above the maximum if   *)
(* it is looked for from there.                                            *)
LEMMA FreeIsFree ==
  ASSUME NEW taken, IsFiniteSet(taken), NEW max \in Nat, NEW reverse \in BOOLEAN,
         Free(taken, max, reverse) # NoRegister
  PROVE  /\ Free(taken, max, reverse) \in Nat \ taken
         /\ reverse => Free(taken, max, reverse) <= max
<1> DEFINE low == 0..Cardinality(taken) \ taken
           below == 0..max \ taken
<1>1. Cardinality(taken) \in Nat /\ low # {}
  BY SomeFree
<1>2. Free(taken, max, reverse) =
        IF ~reverse THEN Min(low) ELSE IF below = {} THEN NoRegister ELSE Max(below)
  BY DEF Free
<1>3. low \in SUBSET Nat /\ below \in SUBSET (0..max)
  BY <1>1
<1>4. low \cap taken = {} /\ below \cap taken = {}
  OBVIOUS
<1> HIDE DEF low, below
<1>5. CASE ~reverse
  <2>1. Min(low) \in low
    BY <1>1, <1>3, MinOf
  <2> QED BY <1>2, <1>3, <1>4, <1>5, <2>1
<1>6. CASE reverse /\ below # {}
  <2>1. Max(below) \in below
    BY <1>3, <1>6, MaxOf
  <2>2. Free(taken, max, reverse) = Max(below)
    BY <1>2, <1>6
  <2>3. Max(below) \in 0..max /\ Max(below) \notin taken
    BY <1>3, <1>4, <2>1
  <2> QED BY <2>2, <2>3
<1> QED BY <1>2, <1>5, <1>6

(* The first free register is not behind the first free one of more.       *)
LEMMA FreeBelow ==
  ASSUME NEW few, NEW many, few \subseteq many, IsFiniteSet(many), NEW max
  PROVE  Free(few, max, FALSE) <= Free(many, max, FALSE)
<1> DEFINE F == 0..Cardinality(few) \ few
           M == 0..Cardinality(many) \ many
<1>1. IsFiniteSet(few) /\ Cardinality(few) <= Cardinality(many)
  BY FS_Subset
<1>2. /\ Cardinality(few) \in Nat /\ F # {}
      /\ Cardinality(many) \in Nat /\ M # {}
  BY <1>1, SomeFree
<1>3. Free(few, max, FALSE) = Min(F) /\ Free(many, max, FALSE) = Min(M)
  BY DEF Free
<1>4. F \in SUBSET Nat /\ M \in SUBSET Nat
  BY <1>2
<1>5. Min(F) \in F /\ (\A y \in F : Min(F) <= y) /\ Min(M) \in M
  <2> HIDE DEF F, M
  <2> QED BY <1>2, <1>4, MinOf
<1>6. CASE Min(M) \in F
  BY <1>3, <1>5, <1>6
<1>7. CASE Min(M) \notin F
  <2>1. Min(M) > Cardinality(few)
    BY <1>2, <1>5, <1>7
  <2>2. Min(F) \in 0..Cardinality(few)
    BY <1>5
  <2>3. Min(M) \in Nat
    BY <1>4, <1>5
  <2> HIDE DEF F, M
  <2>4. Min(F) <= Min(M)
    BY <1>2, <2>1, <2>2, <2>3
  <2> QED BY <1>3, <2>4
<1> QED BY <1>6, <1>7

(* What a new declaration is.                                              *)
LEMMA NewDeclaration ==
  ASSUME NEW decl, IsDeclaration(decl), NEW r
  PROVE  LET new == BuildDeclaration(decl, r)
         IN /\ new.op = DeclareOp(decl) /\ Register(new) = r
            /\ DeclareOp(decl) \in Declarations \ {"dcl_temps"}
            /\ InsertBehind(decl) \subseteq Declarations
            /\ \A class \in Classes \ {"cbuffer", "input"} :
                 DeclareOp(decl) \in DeclaredBy(class)
                   => SeenByAdd(decl) = Registers(prog.instructions, DeclaredBy(class))
<1> DEFINE new == BuildDeclaration(decl, r)
           ns == IF decl.class = "cbuffer" THEN <<r, decl.elements>> ELSE <<r>>
           entries == [k \in DOMAIN ns |-> Entry("imm32", <<Value(ns[k])>>, <<>>, <<>>)]
<1>0. decl.class \in Classes /\ (decl.class = "uav" => decl.kind \in DclUavs)
  BY DEF IsDeclaration
<1>1. new.op = DeclareOp(decl) /\ new.operands = <<DeclarationOperand(decl, r)>>
  BY DEF BuildDeclaration, Instruction
<1>2. DeclarationOperand(decl, r).entries = entries
  BY <1>0 DEF DeclarationOperand, NumberOperand, Classes, Textures
<1>3. 1 \in DOMAIN ns /\ ns[1] = r
  OBVIOUS
<1>4. entries[1] = Entry("imm32", <<Value(r)>>, <<>>, <<>>)
  BY <1>3
<1>5. Entry("imm32", <<Value(r)>>, <<>>, <<>>).lo[1].mode = r
  BY DEF Entry, Value
<1>6. Register(new) = r
  <2> HIDE DEF entries, new
  <2> QED BY <1>1, <1>2, <1>4, <1>5 DEF Register
<1>7. /\ DeclareOp(decl) \in Declarations \ {"dcl_temps"}
      /\ InsertBehind(decl) \subseteq Declarations
  BY <1>0 DEF DeclareOp, InsertBehind, DeclaredBy, Classes, Textures, Declarations,
              DclResources, DclUavs, DclInputs, DclInputsPs, DclOutputs
<1>8. ASSUME NEW class \in Classes \ {"cbuffer", "input"},
             DeclareOp(decl) \in DeclaredBy(class)
      PROVE  SeenByAdd(decl) = Registers(prog.instructions, DeclaredBy(class))
  <2>1. DeclaredBy(class) = DeclaredBy(decl.class) /\ decl.class \notin {"cbuffer", "input"}
    BY <1>0, <1>8 DEF DeclareOp, DeclaredBy, Classes, Textures, DclResources, DclUavs,
                      DclInputs, DclInputsPs, DclOutputs
  <2> QED BY <2>1 DEF SeenByAdd
<1> QED BY <1>1, <1>6, <1>7, <1>8

-----------------------------------------------------------------------------
(* What insertion and replacement keep.                                    *)

(* s without its dcl_temps is found in p in its order.                     *)
Kept(s, p) ==
  \E f \in [1..Len(s) -> 1..Len(p)] :
    /\ \A i, j \in 1..Len(s) : i < j => f[i] < f[j]
    /\ \A i \in 1..Len(s) : s[i].op # "dcl_temps" => p[f[i]] = s[i]

(* A dcl_temps of p declares n registers or more.                          *)
Covers(p, n) ==
  \E k \in Declaring(p, {"dcl_temps"}) :
    Register(p[k]) \in Nat /\ Register(p[k]) >= n

LEMMA OnceInserted ==
  ASSUME NEW p, IsSequence(p), NEW q, NEW k, NEW new, Inserted(p, q, k, new),
         NEW original, OncePerClass(p, original),
         \A class \in Classes \ {"cbuffer", "input"} :
           new.op \in DeclaredBy(class)
             => Register(new) \notin Registers(p, DeclaredBy(class))
  PROVE  OncePerClass(q, original)
<1> SUFFICES ASSUME NEW class \in Classes \ {"cbuffer", "input"},
                    NEW i \in Declaring(q, DeclaredBy(class)),
                    NEW j \in Declaring(q, DeclaredBy(class)),
                    Register(q[i]) = Register(q[j]), i # j
             PROVE  {q[i], q[j]} \subseteq Range(original)
  BY DEF OncePerClass
<1> DEFINE ops == DeclaredBy(class)
           Back(n) == IF n <= k THEN n ELSE n - 1
<1>1. /\ Len(p) \in Nat /\ DOMAIN p = 1..Len(p) /\ k \in 0..Len(p)
      /\ Len(q) = Len(p) + 1 /\ DOMAIN q = 1..Len(q)
      /\ \A n \in 1..Len(q) :
           q[n] = IF n <= k THEN p[n] ELSE IF n = k + 1 THEN new ELSE p[n - 1]
  BY SequenceDomain DEF Inserted
<1>2. ASSUME NEW n \in Declaring(q, ops), n # k + 1
      PROVE  /\ n \in 1..Len(q) /\ Back(n) \in Declaring(p, ops)
             /\ q[n] = p[Back(n)]
  <2>1. n \in 1..Len(q) /\ Declares(q[n], ops)
    BY <1>1, <1>2 DEF Declaring
  <2>2. Back(n) \in 1..Len(p) /\ q[n] = p[Back(n)]
    BY <1>1, <1>2, <2>1
  <2> QED BY <1>1, <2>1, <2>2 DEF Declaring
<1>3. ASSUME NEW n \in Declaring(q, ops), n # k + 1,
             k + 1 \in Declaring(q, ops), Register(q[n]) = Register(q[k + 1])
      PROVE  FALSE
  <2>1. k + 1 \in 1..Len(q) /\ q[k + 1] = new
    BY <1>1
  <2>2. new.op \in ops
    BY <1>3, <2>1 DEF Declaring, Declares
  <2>3. Register(q[n]) \in Registers(p, ops)
    BY <1>2, <1>3 DEF Registers
  <2> QED BY <1>3, <2>1, <2>2, <2>3
<1>4. i # k + 1 /\ j # k + 1
  BY <1>3
<1>5. /\ Back(i) \in Declaring(p, ops) /\ q[i] = p[Back(i)] /\ i \in 1..Len(q)
      /\ Back(j) \in Declaring(p, ops) /\ q[j] = p[Back(j)] /\ j \in 1..Len(q)
  BY <1>2, <1>4
<1>6. Back(i) # Back(j)
  BY <1>1, <1>4, <1>5
<1> HIDE DEF Back
<1> QED BY <1>5, <1>6 DEF OncePerClass

LEMMA OnceReplaced ==
  ASSUME NEW p, IsSequence(p), NEW q, NEW k, NEW new, Replaced(p, q, k, new),
         new.op = "dcl_temps", NEW original, OncePerClass(p, original)
  PROVE  OncePerClass(q, original)
<1> SUFFICES ASSUME NEW class \in Classes \ {"cbuffer", "input"},
                    NEW i \in Declaring(q, DeclaredBy(class)),
                    NEW j \in Declaring(q, DeclaredBy(class)),
                    Register(q[i]) = Register(q[j]), i # j
             PROVE  {q[i], q[j]} \subseteq Range(original)
  BY DEF OncePerClass
<1>1. "dcl_temps" \notin DeclaredBy(class)
  BY DEF DeclaredBy, Classes, Textures, DclResources, DclUavs, DclInputs, DclInputsPs,
         DclOutputs
<1>2. ASSUME NEW n \in Declaring(q, DeclaredBy(class))
      PROVE  n \in Declaring(p, DeclaredBy(class)) /\ q[n] = p[n]
  <2>1. n \in 1..Len(q) /\ n \in 1..Len(p) /\ DOMAIN p = 1..Len(p)
    BY <1>2, SequenceDomain DEF Declaring, Replaced
  <2>2. q[n].op \in DeclaredBy(class)
    BY <1>2 DEF Declaring, Declares
  <2>3. n # k
    BY <1>1, <2>1, <2>2 DEF Replaced
  <2>4. q[n] = p[n]
    BY <2>1, <2>3 DEF Replaced
  <2> QED BY <1>2, <2>1, <2>4 DEF Declaring
<1> QED BY <1>2 DEF OncePerClass

LEMMA InFrontInserted ==
  ASSUME NEW p, IsSequence(p), NEW ops, ops \subseteq Declarations, NEW q, NEW new,
         Inserted(p, q, LastOf(p, ops), new), new.op \in Declarations, InFront(p)
  PROVE  InFront(q)
<1> SUFFICES ASSUME NEW i \in DOMAIN q, NEW j \in DOMAIN q, q[j].op \in Declarations, i < j
             PROVE  q[i].op \in Declarations \cup {"customdata"}
  BY DEF InFront
<1>1. PICK k : k = LastOf(p, ops)
  OBVIOUS
<1>2. /\ Len(p) \in Nat /\ DOMAIN p = 1..Len(p) /\ k \in 0..Len(p)
      /\ Len(q) = Len(p) + 1 /\ DOMAIN q = 1..Len(q)
      /\ \A n \in 1..Len(q) :
           q[n] = IF n <= k THEN p[n] ELSE IF n = k + 1 THEN new ELSE p[n - 1]
  BY <1>1, SequenceDomain DEF Inserted
<1>3. k # 0 => p[k].op \in Declarations
  BY <1>1, LastOfIn
<1>4. CASE i = k + 1
  BY <1>2, <1>4
<1>5. CASE i <= k
  <2>1. q[i] = p[i] /\ i \in DOMAIN p /\ k \in DOMAIN p /\ p[k].op \in Declarations
    BY <1>2, <1>3, <1>5
  <2>2. CASE i = k
    BY <2>1, <2>2
  <2>3. CASE i < k
    BY <2>1, <2>3 DEF InFront
  <2> QED BY <1>2, <1>5, <2>2, <2>3
<1>6. CASE i > k + 1
  <2>1. /\ q[i] = p[i - 1] /\ q[j] = p[j - 1] /\ i - 1 < j - 1
        /\ i - 1 \in DOMAIN p /\ j - 1 \in DOMAIN p
    BY <1>2, <1>6
  <2> QED BY <2>1 DEF InFront
<1> QED BY <1>2, <1>4, <1>5, <1>6

LEMMA InFrontReplaced ==
  ASSUME NEW p, IsSequence(p), NEW q, NEW k, NEW new, Replaced(p, q, k, new),
         new.op = "dcl_temps", InFront(p)
  PROVE  InFront(q)
<1>1. DOMAIN p = 1..Len(p) /\ DOMAIN q = DOMAIN p
  BY SequenceDomain DEF Replaced
<1>2. \A n \in DOMAIN q : q[n].op = p[n].op
  BY <1>1 DEF Replaced
<1> QED BY <1>1, <1>2 DEF InFront

LEMMA KeptInserted ==
  ASSUME NEW p, IsSequence(p), NEW q, NEW k, NEW new, Inserted(p, q, k, new),
         NEW s, IsSequence(s), Kept(s, p)
  PROVE  Kept(s, q)
<1>1. PICK f \in [1..Len(s) -> 1..Len(p)] :
        /\ \A i, j \in 1..Len(s) : i < j => f[i] < f[j]
        /\ \A i \in 1..Len(s) : s[i].op # "dcl_temps" => p[f[i]] = s[i]
  BY DEF Kept
<1>2. /\ Len(p) \in Nat /\ k \in 0..Len(p) /\ Len(q) = Len(p) + 1
      /\ \A n \in 1..Len(q) :
           q[n] = IF n <= k THEN p[n] ELSE IF n = k + 1 THEN new ELSE p[n - 1]
  BY SequenceDomain DEF Inserted
<1> DEFINE g == [i \in 1..Len(s) |-> IF f[i] <= k THEN f[i] ELSE f[i] + 1]
<1>3. \A i \in 1..Len(s) : f[i] \in 1..Len(p)
  BY <1>1
<1>4. g \in [1..Len(s) -> 1..Len(q)]
  BY <1>2, <1>3
<1>5. \A i, j \in 1..Len(s) : i < j => g[i] < g[j]
  <2> SUFFICES ASSUME NEW i \in 1..Len(s), NEW j \in 1..Len(s), i < j PROVE g[i] < g[j]
    OBVIOUS
  <2>1. f[i] < f[j] /\ f[i] \in 1..Len(p) /\ f[j] \in 1..Len(p)
    BY <1>1, <1>3
  <2> QED BY <1>2, <2>1
<1>6. \A i \in 1..Len(s) : q[g[i]] = p[f[i]]
  <2> SUFFICES ASSUME NEW i \in 1..Len(s) PROVE q[g[i]] = p[f[i]]
    OBVIOUS
  <2>1. f[i] \in 1..Len(p) /\ g[i] = IF f[i] <= k THEN f[i] ELSE f[i] + 1
    BY <1>3
  <2> QED BY <1>2, <2>1
<1>7. \A i \in 1..Len(s) : s[i].op # "dcl_temps" => q[g[i]] = s[i]
  BY <1>1, <1>6
<1> HIDE DEF g
<1> QED BY <1>4, <1>5, <1>7 DEF Kept

LEMMA KeptReplaced ==
  ASSUME NEW p, IsSequence(p), NEW q, NEW k, NEW new, Replaced(p, q, k, new),
         NEW s, Kept(s, p)
  PROVE  Kept(s, q)
<1>1. PICK f \in [1..Len(s) -> 1..Len(p)] :
        /\ \A i, j \in 1..Len(s) : i < j => f[i] < f[j]
        /\ \A i \in 1..Len(s) : s[i].op # "dcl_temps" => p[f[i]] = s[i]
  BY DEF Kept
<1>2. \A i \in 1..Len(s) : f[i] \in 1..Len(p)
  BY <1>1
<1>3. ASSUME NEW i \in 1..Len(s), s[i].op # "dcl_temps" PROVE q[f[i]] = s[i]
  <2>1. p[f[i]] = s[i] /\ f[i] \in 1..Len(q)
    BY <1>1, <1>2, <1>3 DEF Replaced
  <2>2. f[i] # k
    BY <1>3, <2>1 DEF Replaced
  <2> QED BY <2>1, <2>2 DEF Replaced
<1>4. f \in [1..Len(s) -> 1..Len(q)]
  BY <1>1 DEF Replaced
<1> QED BY <1>1, <1>3, <1>4 DEF Kept

LEMMA KeptItself ==
  ASSUME NEW s, IsSequence(s)
  PROVE  Kept(s, s)
<1> DEFINE f == [i \in 1..Len(s) |-> i]
<1>1. /\ f \in [1..Len(s) -> 1..Len(s)]
      /\ \A i, j \in 1..Len(s) : i < j => f[i] < f[j]
      /\ \A i \in 1..Len(s) : s[i].op # "dcl_temps" => s[f[i]] = s[i]
  OBVIOUS
<1> QED BY <1>1 DEF Kept

LEMMA CoversInserted ==
  ASSUME NEW p, IsSequence(p), NEW q, NEW k, NEW new, Inserted(p, q, k, new),
         NEW n, Covers(p, n)
  PROVE  Covers(q, n)
<1>1. PICK i \in Declaring(p, {"dcl_temps"}) : Register(p[i]) \in Nat /\ Register(p[i]) >= n
  BY DEF Covers
<1>2. i \in 1..Len(p) /\ Len(p) \in Nat /\ Declares(p[i], {"dcl_temps"})
  BY <1>1, SequenceDomain DEF Declaring
<1>3. PICK j : j = IF i <= k THEN i ELSE i + 1
  OBVIOUS
<1>4. j \in DOMAIN q /\ q[j] = p[i]
  <2>1. DOMAIN q = 1..Len(p) + 1
    BY SequenceDomain DEF Inserted
  <2> QED BY <1>2, <1>3, <2>1 DEF Inserted
<1> QED BY <1>1, <1>2, <1>4 DEF Covers, Declaring

(* EnsureTempDeclaration makes the program cover what it is told to.       *)
LEMMA EnsureCovers ==
  ASSUME NEW p, IsSequence(p), NEW n \in Nat, n # 0
  PROVE  Covers(EnsureTempDeclaration(p, n), n)
<1> DEFINE q == EnsureTempDeclaration(p, n)
           new == TempDeclaration(n)
<1>1. Declares(new, {"dcl_temps"}) /\ Register(new) = n
  BY TempDeclarationOf
<1>2. \E j \in DOMAIN q : q[j] = new
  <2>1. CASE \E k : Replaced(p, q, k, new)
    <3>1. PICK k : Replaced(p, q, k, new)
      BY <2>1
    <3>2. k \in 1..Len(q) /\ DOMAIN q = 1..Len(q) /\ q[k] = new
      BY <3>1, SequenceDomain DEF Replaced
    <3> QED BY <3>2
  <2>2. CASE \E k : Inserted(p, q, k, new)
    <3>1. PICK k : Inserted(p, q, k, new)
      BY <2>2
    <3>2. Len(p) \in Nat /\ Len(q) = Len(p) + 1 /\ DOMAIN q = 1..Len(q) /\ k \in 0..Len(p)
      BY <3>1, SequenceDomain DEF Inserted
    <3>3. k + 1 \in DOMAIN q /\ q[k + 1] = new
      BY <3>1, <3>2 DEF Inserted
    <3> QED BY <3>3
  <2>3. \/ Inserted(p, q, LastOf(p, Declarations), new)
        \/ \E k : Replaced(p, q, k, new)
    BY EnsureCases
  <2> QED BY <2>1, <2>2, <2>3
<1> HIDE DEF q, new
<1>3. Covers(q, n)
  BY <1>1, <1>2 DEF Covers, Declaring
<1> QED BY <1>3 DEF q

(* Whatever EnsureTempDeclaration does, it keeps the rest.                 *)
LEMMA EnsureKeeps ==
  ASSUME NEW p, IsSequence(p), NEW n, NEW s, IsSequence(s), NEW original
  PROVE  LET q == EnsureTempDeclaration(p, n)
         IN /\ IsSequence(q)
            /\ Kept(s, p) => Kept(s, q)
            /\ InFront(p) => InFront(q)
            /\ OncePerClass(p, original) => OncePerClass(q, original)
<1> DEFINE q == EnsureTempDeclaration(p, n)
           new == TempDeclaration(n)
<1>1. new.op = "dcl_temps" /\ new.op \in Declarations
  BY TempDeclarationOf DEF Declarations
<1>2. \A class \in Classes : "dcl_temps" \notin DeclaredBy(class)
  BY DEF DeclaredBy, Classes, Textures, DclResources, DclUavs, DclInputs, DclInputsPs,
         DclOutputs
<1>3. \/ q = p
      \/ Inserted(p, q, LastOf(p, Declarations), new)
      \/ \E k : Replaced(p, q, k, new)
  BY EnsureCases
<1> HIDE DEF q, new
<1>4. CASE Inserted(p, q, LastOf(p, Declarations), new)
  <2>1. IsSequence(q)
    BY <1>4 DEF Inserted
  <2>2. Kept(s, p) => Kept(s, q)
    BY <1>4, KeptInserted
  <2>3. InFront(p) => InFront(q)
    BY <1>1, <1>4, InFrontInserted
  <2>4. OncePerClass(p, original) => OncePerClass(q, original)
    BY <1>1, <1>2, <1>4, OnceInserted
  <2> QED BY <2>1, <2>2, <2>3, <2>4 DEF q
<1>5. CASE \E k : Replaced(p, q, k, new)
  <2>1. PICK k : Replaced(p, q, k, new)
    BY <1>5
  <2>2. IsSequence(q)
    BY <2>1 DEF Replaced
  <2>3. Kept(s, p) => Kept(s, q)
    BY <2>1, KeptReplaced
  <2>4. InFront(p) => InFront(q)
    BY <1>1, <2>1, InFrontReplaced
  <2>5. OncePerClass(p, original) => OncePerClass(q, original)
    BY <1>1, <2>1, OnceReplaced
  <2> QED BY <2>2, <2>3, <2>4, <2>5 DEF q
<1> QED BY <1>3, <1>4, <1>5 DEF q

(* The function that IsKept is defined by.                                 *)
IsPlace(s, t, n, f) ==
  f = [i \in 0..n |-> IF i = 0 THEN 0 ELSE NextPlace(s, t, i, f[i - 1])]

LEMMA PlaceExists ==
  ASSUME NEW s, NEW t, NEW n \in Nat
  PROVE  \E f : IsPlace(s, t, n, f)
<1> DEFINE T == {m \in Nat : \E f : IsPlace(s, t, m, f)}
<1>1. 0 \in T
  <2>1. PICK f : f = [i \in 0..0 |-> 0]
    OBVIOUS
  <2>2. f = [i \in 0..0 |-> IF i = 0 THEN 0 ELSE NextPlace(s, t, i, f[i - 1])]
    BY <2>1
  <2> QED BY <2>2 DEF IsPlace
<1>2. ASSUME NEW m \in Nat, m \in T PROVE m + 1 \in T
  <2>1. PICK f : IsPlace(s, t, m, f)
    BY <1>2
  <2>2. PICK g : g = [i \in 0..(m + 1) |->
                        IF i <= m THEN f[i] ELSE NextPlace(s, t, m + 1, f[m])]
    OBVIOUS
  <2>3. ASSUME NEW i \in 0..(m + 1)
        PROVE  g[i] = IF i = 0 THEN 0 ELSE NextPlace(s, t, i, g[i - 1])
    <3>1. CASE i = 0
      BY <2>1, <2>2, <3>1 DEF IsPlace
    <3>2. CASE i \in 1..m
      <4>1. i \in 0..m /\ i - 1 \in 0..m /\ i # 0
        BY <3>2
      <4>2. f[i] = NextPlace(s, t, i, f[i - 1])
        BY <2>1, <4>1 DEF IsPlace
      <4>3. g[i] = f[i] /\ g[i - 1] = f[i - 1]
        BY <2>2, <4>1
      <4> QED BY <4>1, <4>2, <4>3
    <3>3. CASE i = m + 1
      <4>1. g[i] = NextPlace(s, t, m + 1, f[m]) /\ g[m] = f[m] /\ i - 1 = m /\ i # 0
        BY <2>2, <3>3
      <4> QED BY <3>3, <4>1
    <3> QED BY <3>1, <3>2, <3>3
  <2>4. g = [i \in 0..(m + 1) |-> IF i = 0 THEN 0 ELSE NextPlace(s, t, i, g[i - 1])]
    BY <2>2, <2>3
  <2>5. IsPlace(s, t, m + 1, g)
    BY <2>4, Zenon DEF IsPlace
  <2> QED BY <2>5
<1>3. T = Nat
  BY <1>1, <1>2, SetInduction
<1> QED BY <1>3

(* The search of IsKept finds what is there: it is never ahead of a way    *)
(* in which s lies in t.                                                   *)
LEMMA KeptIsKept ==
  ASSUME NEW s, IsSequence(s), NEW t, IsSequence(t), Kept(s, t)
  PROVE  IsKept(s, t)
<1>1. PICK f \in [1..Len(s) -> 1..Len(t)] :
        /\ \A i, j \in 1..Len(s) : i < j => f[i] < f[j]
        /\ \A i \in 1..Len(s) : s[i].op # "dcl_temps" => t[f[i]] = s[i]
  BY DEF Kept
<1>2. Len(s) \in Nat /\ Len(t) \in Nat
  BY SequenceDomain
<1>3. PICK n \in Nat : n = Len(s)
  BY <1>2
<1>4. PICK g : g = CHOOSE h : IsPlace(s, t, n, h)
  OBVIOUS
<1>5. IsPlace(s, t, n, g)
  BY <1>4, PlaceExists
<1>6. IsKept(s, t) <=> g[n] <= Len(t)
  BY <1>3, <1>4 DEF IsKept, IsPlace
<1>7. g[0] = 0 /\ \A i \in 1..n : g[i] = NextPlace(s, t, i, g[i - 1])
  <2>1. \A i \in 0..n : g[i] = IF i = 0 THEN 0 ELSE NextPlace(s, t, i, g[i - 1])
    BY <1>5, Zenon DEF IsPlace
  <2>2. 0 \in 0..n /\ \A i \in 1..n : i \in 0..n /\ i # 0
    OBVIOUS
  <2> QED BY <2>1, <2>2
<1>8. \A i \in 1..n : f[i] \in 1..Len(t)
  BY <1>1, <1>3
<1> DEFINE Reach(m) == IF m = 0 THEN 0 ELSE f[m]
           T == {m \in Nat : m <= n => g[m] \in Nat /\ g[m] <= Reach(m)}
<1>9. 0 \in T
  BY <1>7
<1>10. ASSUME NEW m \in Nat, m \in T PROVE m + 1 \in T
  <2>1. SUFFICES ASSUME m + 1 <= n
                 PROVE  g[m + 1] \in Nat /\ g[m + 1] <= f[m + 1]
    OBVIOUS
  <2>2. PICK k \in 1..n : k = m + 1 /\ k - 1 = m
    BY <2>1
  <2>3. g[m] \in Nat /\ g[m] <= Reach(m)
    BY <1>10, <2>1
  <2>4. Reach(m) < f[k] /\ f[k] \in 1..Len(t)
    <3>1. CASE m = 0
      BY <1>8, <2>2, <3>1
    <3>2. CASE m # 0
      <4>1. m \in 1..Len(s) /\ k \in 1..Len(s) /\ m < k
        BY <1>3, <2>2, <3>2
      <4> QED BY <1>1, <1>8, <3>2, <4>1
    <3> QED BY <3>1, <3>2
  <2>5. Reach(m) \in Nat
    BY <1>2, <1>8, <2>1
  <2> HIDE DEF Reach
  <2>6. g[k] = NextPlace(s, t, k, g[m])
    BY <1>7, <2>2
  <2>7. CASE s[k].op = "dcl_temps"
    <3>1. g[k] = g[m]
      BY <2>6, <2>7 DEF NextPlace
    <3> QED BY <1>2, <2>2, <2>3, <2>4, <2>5, <3>1
  <2>8. CASE s[k].op # "dcl_temps"
    <3> DEFINE there == {j \in (g[m] + 1)..Len(t) : t[j] = s[k]} \cup {Len(t) + 1}
    <3>1. f[k] \in there
      <4>1. t[f[k]] = s[k]
        BY <1>1, <1>3, <2>2, <2>8
      <4>2. f[k] \in (g[m] + 1)..Len(t)
        BY <1>2, <2>3, <2>4, <2>5
      <4> QED BY <4>1, <4>2
    <3>2. there \in SUBSET Nat
      BY <1>2, <2>3
    <3>3. g[k] = Min(there)
      BY <2>6, <2>8 DEF NextPlace
    <3> HIDE DEF there
    <3>4. Min(there) \in there /\ \A y \in there : Min(there) <= y
      BY <3>1, <3>2, MinOf
    <3>5. g[k] \in Nat /\ g[k] <= f[k]
      BY <3>1, <3>2, <3>3, <3>4
    <3> QED BY <2>2, <3>5
  <2> QED BY <2>7, <2>8
<1>11. T = Nat
  <2> HIDE DEF T
  <2>1. T \in SUBSET Nat
    BY DEF T
  <2> QED BY <1>9, <1>10, <2>1, SetInduction
<1>12. g[n] \in Nat /\ g[n] <= Reach(n)
  BY <1>11
<1>13. Reach(n) \in 0..Len(t)
  BY <1>2, <1>3, <1>8
<1> HIDE DEF Reach
<1> QED BY <1>2, <1>6, <1>12, <1>13

-----------------------------------------------------------------------------
(* The invariant of declarations and code.                                 *)

ProgFields == {"instructions", "temp_count", "resources", "samplers", "cbuffers"}

StepsOK ==
  /\ phase \in {"closed", "steps", "adding", "done", "failed"}
  /\ IsSequence(steps) /\ \A k \in DOMAIN steps : IsStep(steps[k])
  /\ phase = "adding" => steps # <<>> /\ Head(steps).type = "add_resource"

WorkOK ==
  /\ IsSequence(todo) /\ \A k \in DOMAIN todo : IsDeclaration(todo[k])
  /\ IsSequence(temps) /\ \A k \in DOMAIN temps : temps[k].count \in Nat \ {0}
  /\ offset \in Nat
  /\ phase \in {"closed", "steps", "done"} => offset = 0

ProgramOK ==
  /\ DOMAIN prog = ProgFields
  /\ IsSequence(prog.instructions)
  /\ reserved \in Nat /\ prog.temp_count \in Nat /\ reserved <= prog.temp_count
  /\ pool \in [base : Nat, size : Nat]
  /\ phase = "closed" => pool = [base |-> 0, size |-> 0]

BindingsOK ==
  /\ DOMAIN bindings = Classes \cup {"temp"}
  /\ \A class \in Classes : \A h \in DOMAIN bindings[class] :
       bindings[class][h] \in 0..MaxBindPoint[class]

OnceOK == OncePerClass(prog.instructions, Original)

KeptOK ==
  /\ input \in Inputs
  /\ phase \notin {"closed", "failed"} =>
       /\ IsSequence(Original)
       /\ Kept(Original, prog.instructions)
       /\ InFront(Original) => InFront(prog.instructions)

DInv == StepsOK /\ WorkOK /\ ProgramOK /\ BindingsOK /\ OnceOK /\ KeptOK

(* What is parsed from a container that is not refused.                    *)
LEMMA ParsedIs ==
  ASSUME NEW c \in Inputs, ~Rejected(c)
  PROVE  LET p == Parsed(ReadChunks(c))
         IN /\ DOMAIN p = ProgFields
            /\ IsSequence(p.instructions)
            /\ p.temp_count \in Nat
            /\ p.temp_count # 0 => Covers(p.instructions, p.temp_count)
<1> DEFINE p == Parsed(ReadChunks(c))
           counts == Declaring(p.instructions, {"dcl_temps"})
<1>1. /\ p.instructions \in Seq(Range(p.instructions))
      /\ \A k \in counts : Register(p.instructions[k]) \in Nat
  BY ParserAssumption
<1>2. IsSequence(p.instructions)
  BY <1>1 DEF IsSequence
<1>3. /\ DOMAIN p = ProgFields
      /\ p.temp_count = IF counts = {} THEN 0 ELSE Register(p.instructions[Max(counts)])
  BY DEF Parsed, ProgFields
<1>4. Len(p.instructions) \in Nat /\ counts \in SUBSET (0..Len(p.instructions))
  BY <1>2, SequenceDomain DEF Declaring
<1> HIDE DEF p
<1>5. counts # {} => Max(counts) \in counts
  <2> HIDE DEF counts
  <2> QED BY <1>4, MaxOf
<1>6. CASE counts = {}
  BY <1>2, <1>3, <1>6 DEF p
<1>7. CASE counts # {}
  <2>1. Max(counts) \in counts /\ p.temp_count = Register(p.instructions[Max(counts)])
    BY <1>3, <1>5, <1>7
  <2>2. p.temp_count \in Nat
    BY <1>1, <2>1 DEF p
  <2>3. Covers(p.instructions, p.temp_count)
    BY <2>1, <2>2 DEF Covers
  <2> QED BY <1>2, <1>3, <2>2, <2>3 DEF p
<1> QED BY <1>6, <1>7

LEMMA NothingParsed ==
  /\ DOMAIN Parsed(<<>>) = ProgFields
  /\ Parsed(<<>>).instructions = <<>>
  /\ Parsed(<<>>).temp_count = 0
<1>1. ShaderChunk(<<>>) = 0
  BY DEF ShaderChunk
<1>2. Declaring(<<>>, {"dcl_temps"}) = {}
  BY DEF Declaring
<1> QED BY <1>1, <1>2 DEF Parsed, ProgFields

LEMMA EmptyIsSequence == IsSequence(<<>>)
BY EmptySeq DEF IsSequence

LEMMA RangeSequence ==
  ASSUME NEW p, p \in Seq(Range(p))
  PROVE  IsSequence(p) /\ \A k \in DOMAIN p : p[k] \in Range(p)
BY DEF IsSequence, Range

LEMMA DInit == Init => DInv
<1> SUFFICES ASSUME Init PROVE DInv
  OBVIOUS
<1>0. /\ DOMAIN prog = ProgFields /\ prog.instructions = <<>> /\ prog.temp_count = 0
  BY NothingParsed DEF Init
<1>1. StepsOK
  <2>1. steps \in Seq(Range(steps)) /\ \A step \in Range(steps) : IsStep(step)
    BY RecipesAssumption DEF Init
  <2> QED BY <2>1, RangeSequence DEF Init, StepsOK
<1>2. WorkOK
  BY EmptyIsSequence DEF Init, WorkOK
<1>3. ProgramOK
  BY <1>0, EmptyIsSequence DEF Init, ProgramOK
<1>4. BindingsOK
  BY DEF Init, BindingsOK, NoBindings
<1>5. OnceOK
  BY <1>0 DEF OnceOK, OncePerClass, Declaring
<1>6. KeptOK
  BY DEF Init, KeptOK
<1> QED BY <1>1, <1>2, <1>3, <1>4, <1>5, <1>6 DEF DInv

LEMMA DOpen == DInv /\ Open => DInv'
<1> SUFFICES ASSUME DInv, Open PROVE DInv'
  OBVIOUS
<1> USE DEF DInv
<1>0. /\ phase = "closed" /\ input \in Inputs /\ input' = input /\ steps' = steps
      /\ todo' = todo /\ temps' = temps /\ offset' = offset /\ bindings' = bindings
      /\ pool' = pool /\ widths' = widths
  BY DEF Open, KeptOK
<1> DEFINE p == Parsed(ReadChunks(input))
<1>1. \/ phase' = "failed" /\ prog' = prog /\ reserved' = reserved
      \/ /\ ~Rejected(input) /\ phase' = "steps"
         /\ prog' = p /\ reserved' = p.temp_count
  BY DEF Open
<1>2. Original' = Original /\ Original = p.instructions
  BY <1>0 DEF Original
<1>3. StepsOK'
  BY <1>0, <1>1 DEF StepsOK
<1>4. WorkOK'
  BY <1>0, <1>1 DEF WorkOK
<1>5. BindingsOK'
  BY <1>0 DEF BindingsOK
<1>6. CASE phase' = "failed" /\ prog' = prog /\ reserved' = reserved
  <2>1. ProgramOK'
    BY <1>0, <1>6 DEF ProgramOK
  <2>2. OnceOK'
    BY <1>2, <1>6 DEF OnceOK
  <2>3. KeptOK'
    BY <1>0, <1>6 DEF KeptOK
  <2> QED BY <1>3, <1>4, <1>5, <2>1, <2>2, <2>3
<1>7. CASE /\ ~Rejected(input) /\ phase' = "steps"
           /\ prog' = p /\ reserved' = p.temp_count
  <2>1. DOMAIN p = ProgFields /\ IsSequence(p.instructions) /\ p.temp_count \in Nat
    BY <1>0, <1>7, ParsedIs
  <2> HIDE DEF p
  <2>2. ProgramOK'
    BY <1>0, <1>7, <2>1 DEF ProgramOK
  <2>3. OnceOK'
    <3>1. OncePerClass(Original, Original)
      BY DEF OncePerClass, Declaring, Range
    <3> QED BY <1>2, <1>7, <3>1 DEF OnceOK
  <2>4. KeptOK'
    BY <1>0, <1>2, <1>7, <2>1, KeptItself DEF KeptOK
  <2> QED BY <1>3, <1>4, <1>5, <2>2, <2>3, <2>4
<1> QED BY <1>1, <1>6, <1>7

(* A step that is not the last one leaves a sequence of steps.             *)
LEMMA StepsTail ==
  ASSUME IsSequence(steps), \A k \in DOMAIN steps : IsStep(steps[k]), steps # <<>>
  PROVE  /\ IsStep(Head(steps))
         /\ IsSequence(Tail(steps)) /\ \A k \in DOMAIN Tail(steps) : IsStep(Tail(steps)[k])
BY HeadTail

LEMMA DDeclareTemplate == DInv /\ DeclareTemplate => DInv'
<1> SUFFICES ASSUME DInv, DeclareTemplate PROVE DInv'
  OBVIOUS
<1> USE DEF DInv
<1>0. /\ phase = "steps" /\ phase' = phase /\ input' = input /\ prog' = prog
      /\ todo' = todo /\ temps' = temps /\ offset' = offset /\ bindings' = bindings
      /\ reserved' = reserved
  BY DEF DeclareTemplate
<1>1. Original' = Original
  BY <1>0 DEF Original
<1>2. IsStep(Head(steps)) /\ Head(steps).type = "declare_template"
      /\ steps' = Tail(steps) /\ IsSequence(steps')
      /\ \A k \in DOMAIN steps' : IsStep(steps'[k])
  BY StepsTail DEF DeclareTemplate, StepsOK
<1>3. StepsOK'
  BY <1>0, <1>2 DEF StepsOK
<1>4. Head(steps).temps \in Nat
  BY <1>2 DEF IsStep
<1>5. pool' \in [base : Nat, size : Nat]
  BY <1>4 DEF DeclareTemplate, ProgramOK
<1>6. ProgramOK'
  BY <1>0, <1>5 DEF ProgramOK
<1> QED BY <1>0, <1>1, <1>3, <1>6 DEF WorkOK, BindingsOK, OnceOK, KeptOK

LEMMA DBeginAddResource == DInv /\ BeginAddResource => DInv'
<1> SUFFICES ASSUME DInv, BeginAddResource PROVE DInv'
  OBVIOUS
<1> USE DEF DInv
<1>0. /\ phase = "steps" /\ phase' = "adding" /\ input' = input /\ prog' = prog
      /\ steps' = steps /\ bindings' = bindings /\ pool' = pool /\ reserved' = reserved
      /\ steps # <<>> /\ Head(steps).type = "add_resource"
      /\ todo' = Head(steps).decls /\ temps' = Head(steps).temps /\ offset' = 0
  BY DEF BeginAddResource
<1>1. Original' = Original
  BY <1>0 DEF Original
<1>2. IsStep(Head(steps))
  BY <1>0, StepsTail DEF StepsOK
<1>3. /\ todo' \in Seq(Range(todo')) /\ \A decl \in Range(todo') : IsDeclaration(decl)
      /\ temps' \in Seq(Range(temps')) /\ \A temp \in Range(temps') : temp.count \in Nat \ {0}
  BY <1>0, <1>2 DEF IsStep
<1>4. WorkOK'
  BY <1>0, <1>3, RangeSequence DEF WorkOK
<1>5. StepsOK'
  BY <1>0 DEF StepsOK
<1>6. ProgramOK'
  BY <1>0 DEF ProgramOK
<1> QED BY <1>0, <1>1, <1>4, <1>5, <1>6 DEF BindingsOK, OnceOK, KeptOK

LEMMA DAddTemporary == DInv /\ AddTemporary => DInv'
<1> SUFFICES ASSUME DInv, AddTemporary PROVE DInv'
  OBVIOUS
<1> USE DEF DInv
<1>0. /\ phase = "adding" /\ phase' = phase /\ input' = input /\ prog' = prog
      /\ steps' = steps /\ todo' = todo /\ pool' = pool /\ reserved' = reserved
      /\ temps # <<>> /\ temps' = Tail(temps) /\ offset' = offset + Head(temps).count
  BY DEF AddTemporary
<1>1. Original' = Original
  BY <1>0 DEF Original
<1>2. /\ Head(temps).count \in Nat
      /\ IsSequence(temps') /\ \A k \in DOMAIN temps' : temps'[k].count \in Nat \ {0}
  BY <1>0, HeadTail DEF WorkOK
<1>3. WorkOK'
  BY <1>0, <1>2 DEF WorkOK
<1>4. BindingsOK'
  <2>1. "temp" \notin Classes
    BY DEF Classes, Textures
  <2>2. /\ DOMAIN bindings' = DOMAIN bindings
        /\ \A class \in Classes : bindings'[class] = bindings[class]
    BY <2>1 DEF AddTemporary, BindingsOK
  <2> QED BY <2>2 DEF BindingsOK
<1>5. StepsOK'
  BY <1>0 DEF StepsOK
<1>6. ProgramOK'
  BY <1>0 DEF ProgramOK
<1> QED BY <1>0, <1>1, <1>3, <1>4, <1>5, <1>6 DEF OnceOK, KeptOK

(* The register of a declaration that is made is free where it counts, and *)
(* the one its handle is bound to is one of its class.                     *)
LEMMA MadeDeclaration ==
  ASSUME DInv, NEW decl, IsDeclaration(decl), NEW found, NEW r, NEW max,
         max = MaxBindPoint[decl.class],
         found = IF decl.register # NoRegister THEN decl.register
                 ELSE Free(SeenByFind(decl.class), max, decl.reverse),
         r = AllocateBindPoint(decl, SeenByAdd(decl), max),
         InRange(found, decl.class), r # NoRegister
  PROVE  /\ \A class \in Classes \ {"cbuffer", "input"} :
              DeclareOp(decl) \in DeclaredBy(class)
                => r \notin Registers(prog.instructions, DeclaredBy(class))
         /\ found \in 0..max
         /\ decl.class \in {"input", "output"} => r \in 0..max
<1>0. /\ decl.class \in Classes /\ decl.reverse \in BOOLEAN
      /\ IsSequence(prog.instructions)
  BY DEF IsDeclaration, DInv, ProgramOK
<1>1. max \in Nat
  BY <1>0, BindPointsAssumption
<1>2. found \in 0..max
  BY DEF InRange
<1>3. r = IF decl.register # NoRegister
            THEN IF decl.register \in SeenByAdd(decl) THEN NoRegister ELSE decl.register
            ELSE Free(SeenByAdd(decl), max, decl.reverse)
  BY DEF AllocateBindPoint
<1>4. ASSUME IsFiniteSet(SeenByAdd(decl))
      PROVE  r \notin SeenByAdd(decl)
  <2>1. CASE decl.register # NoRegister
    BY <1>3, <2>1
  <2>2. CASE decl.register = NoRegister
    <3>1. r = Free(SeenByAdd(decl), max, decl.reverse)
      BY <1>3, <2>2
    <3> QED BY <1>0, <1>1, <1>4, <3>1, FreeIsFree
  <2> QED BY <2>1, <2>2
<1>5. ASSUME NEW class \in Classes \ {"cbuffer", "input"},
             DeclareOp(decl) \in DeclaredBy(class)
      PROVE  r \notin Registers(prog.instructions, DeclaredBy(class))
  <2>1. SeenByAdd(decl) = Registers(prog.instructions, DeclaredBy(class))
    BY <1>5, NewDeclaration
  <2>2. IsFiniteSet(SeenByAdd(decl))
    BY <1>0, <2>1, RegistersFinite
  <2> QED BY <1>4, <2>1, <2>2
<1>6. ASSUME decl.class \in {"input", "output"} PROVE r \in 0..max
  <2>1. CASE decl.register # NoRegister
    BY <1>2, <1>3, <2>1
  <2>2. CASE decl.register = NoRegister
    <3> DEFINE many == Registers(prog.instructions, DeclaredBy(decl.class))
               few == SeenByAdd(decl)
    <3>1. found = Free(many, max, decl.reverse) /\ r = Free(few, max, decl.reverse)
      <4>1. SeenByFind(decl.class) = many
        BY <1>6 DEF SeenByFind, Textures
      <4> QED BY <1>3, <2>2, <4>1
    <3>2. IsFiniteSet(many)
      BY <1>0, RegistersFinite
    <3>3. few \subseteq many
      <4>1. CASE decl.class = "output"
        BY <4>1 DEF SeenByAdd
      <4>2. CASE decl.class = "input"
        <5>1. InsertBehind(decl) \subseteq DeclaredBy(decl.class)
          BY <4>2 DEF InsertBehind, DeclaredBy, DclInputs, DclInputsPs, Textures
        <5>2. few = Registers(prog.instructions, InsertBehind(decl))
          BY <4>2 DEF SeenByAdd
        <5> QED BY <5>1, <5>2 DEF Registers, Declaring, Declares
      <4> QED BY <1>6, <4>1, <4>2
    <3> HIDE DEF many, few
    <3>4. IsFiniteSet(few)
      BY <3>2, <3>3, FS_Subset
    <3>5. r \in Nat /\ (decl.reverse => r <= max)
      BY <1>0, <1>1, <3>1, <3>4, FreeIsFree
    <3>6. CASE decl.reverse
      BY <1>1, <3>5, <3>6
    <3>7. CASE ~decl.reverse
      <4>1. decl.reverse = FALSE
        BY <1>0, <3>7
      <4>2. r <= found
        BY <3>1, <3>2, <3>3, <4>1, FreeBelow
      <4> QED BY <1>1, <1>2, <3>5, <4>2
    <3> QED BY <3>6, <3>7
  <2> QED BY <2>1, <2>2
<1> QED BY <1>2, <1>5, <1>6

LEMMA DAddDeclaration == DInv /\ AddDeclaration => DInv'
<1> SUFFICES ASSUME DInv, AddDeclaration PROVE DInv'
  OBVIOUS
<1> DEFINE decl == Head(todo)
           max == MaxBindPoint[decl.class]
           found == IF decl.register # NoRegister THEN decl.register
                    ELSE Free(SeenByFind(decl.class), max, decl.reverse)
           r == AllocateBindPoint(decl, SeenByAdd(decl), max)
           signature == decl.class \in {"input", "output"}
           bound == IF signature THEN r ELSE found
           p == prog.instructions
           new == BuildDeclaration(decl, r)
           q == InsertAfter(p, InsertBehind(decl), new)
<1>0. /\ phase = "adding" /\ input' = input /\ steps' = steps /\ temps' = temps
      /\ offset' = offset /\ pool' = pool /\ reserved' = reserved
      /\ todo # <<>> /\ todo' = Tail(todo)
  BY DEF AddDeclaration
<1>1. Original' = Original
  BY <1>0 DEF Original
<1>2. StepsOK /\ WorkOK /\ ProgramOK /\ BindingsOK /\ OnceOK /\ KeptOK
  BY DEF DInv
<1>3. /\ IsDeclaration(decl) /\ IsSequence(todo')
      /\ \A k \in DOMAIN todo' : IsDeclaration(todo'[k])
  BY <1>0, <1>2, HeadTail DEF WorkOK
<1>4. phase' \in {"adding", "failed"}
  BY DEF AddDeclaration, Refuse
<1>5. StepsOK' /\ WorkOK'
  BY <1>0, <1>2, <1>3, <1>4 DEF StepsOK, WorkOK
<1>6. CASE ~InRange(found, decl.class) \/ r = NoRegister
  <2>1. prog' = prog /\ bindings' = bindings
    BY <1>6 DEF AddDeclaration, Refuse
  <2>2. ProgramOK' /\ BindingsOK' /\ OnceOK' /\ KeptOK'
    BY <1>0, <1>1, <1>2, <1>4, <2>1 DEF ProgramOK, BindingsOK, OnceOK, KeptOK
  <2> QED BY <1>5, <2>2 DEF DInv
<1>7. CASE InRange(found, decl.class) /\ r # NoRegister
  <2>1. /\ prog' = [prog EXCEPT !.instructions = q]
        /\ bindings' = [bindings EXCEPT ![decl.class] =
                          [h \in DOMAIN @ \cup {decl.handle} |->
                             IF h = decl.handle THEN bound ELSE @[h]]]
        /\ phase' = "adding"
    BY <1>7 DEF AddDeclaration
  <2>2. /\ \A class \in Classes \ {"cbuffer", "input"} :
             DeclareOp(decl) \in DeclaredBy(class)
               => r \notin Registers(p, DeclaredBy(class))
        /\ found \in 0..max /\ (signature => r \in 0..max)
    BY <1>3, <1>7, MadeDeclaration
  <2>3. /\ new.op = DeclareOp(decl) /\ Register(new) = r
        /\ DeclareOp(decl) \in Declarations
        /\ InsertBehind(decl) \subseteq Declarations
    BY <1>3, NewDeclaration
  <2>4. IsSequence(p) /\ "instructions" \in DOMAIN prog
    BY <1>2 DEF ProgramOK, ProgFields
  <2>5. Inserted(p, q, LastOf(p, InsertBehind(decl)), new)
    BY <2>4, InsertAfterInserts
  <2>6. /\ prog'.instructions = q /\ prog'.temp_count = prog.temp_count
        /\ DOMAIN prog' = DOMAIN prog /\ IsSequence(q)
    <3>1. IsSequence(q)
      BY <2>5 DEF Inserted
    <3> HIDE DEF q
    <3> QED BY <1>2, <2>1, <2>4, <3>1 DEF ProgramOK, ProgFields
  <2>7. bound \in 0..max
    BY <2>2
  <2> HIDE DEF q, new, r, found, bound, p
  <2>8. BindingsOK'
    <3>1. decl.class \in Classes /\ DOMAIN bindings = Classes \cup {"temp"}
      BY <1>2, <1>3 DEF IsDeclaration, BindingsOK
    <3>2. DOMAIN bindings' = DOMAIN bindings
      BY <2>1
    <3>3. ASSUME NEW class \in Classes, NEW h \in DOMAIN bindings'[class]
          PROVE  bindings'[class][h] \in 0..MaxBindPoint[class]
      <4>1. CASE class # decl.class
        <5>1. bindings'[class] = bindings[class]
          BY <2>1, <3>1, <4>1
        <5> QED BY <1>2, <3>3, <5>1 DEF BindingsOK
      <4>2. CASE class = decl.class
        <5>1. bindings'[class] = [g \in DOMAIN bindings[class] \cup {decl.handle} |->
                                    IF g = decl.handle THEN bound ELSE bindings[class][g]]
          BY <2>1, <3>1, <4>2
        <5>2. CASE h = decl.handle
          BY <2>7, <3>3, <4>2, <5>1, <5>2
        <5>3. CASE h # decl.handle
          <6>1. h \in DOMAIN bindings[class] /\ bindings'[class][h] = bindings[class][h]
            BY <3>3, <5>1, <5>3
          <6> QED BY <1>2, <6>1 DEF BindingsOK
        <5> QED BY <5>2, <5>3
      <4> QED BY <4>1, <4>2
    <3> QED BY <3>1, <3>2, <3>3 DEF BindingsOK
  <2>9. OnceOK'
    <3>1. OncePerClass(p, Original)
      BY <1>2 DEF OnceOK, p
    <3>2. OncePerClass(q, Original)
      BY <2>2, <2>3, <2>4, <2>5, <3>1, OnceInserted
    <3> QED BY <1>1, <2>6, <3>2 DEF OnceOK
  <2>10. KeptOK'
    <3>1. IsSequence(Original) /\ Kept(Original, p) /\ (InFront(Original) => InFront(p))
      BY <1>0, <1>2 DEF KeptOK, p
    <3>2. Kept(Original, q)
      BY <2>4, <2>5, <3>1, KeptInserted
    <3>3. InFront(Original) => InFront(q)
      BY <2>3, <2>4, <2>5, <3>1, InFrontInserted
    <3> QED BY <1>0, <1>1, <1>2, <2>6, <3>1, <3>2, <3>3 DEF KeptOK
  <2>11. ProgramOK'
    BY <1>0, <1>2, <2>1, <2>6 DEF ProgramOK
  <2> QED BY <1>5, <2>8, <2>9, <2>10, <2>11 DEF DInv
<1> QED BY <1>6, <1>7

LEMMA DFinishAddResource == DInv /\ FinishAddResource => DInv'
<1> SUFFICES ASSUME DInv, FinishAddResource PROVE DInv'
  OBVIOUS
<1> DEFINE count == prog.temp_count + offset
           added == Head(steps).temps # <<>>
           p == prog.instructions
           q == EnsureTempDeclaration(p, count + pool.size)
<1>0. /\ phase = "adding" /\ input' = input /\ todo' = todo /\ temps' = temps
      /\ offset' = 0 /\ pool' = pool /\ reserved' = reserved /\ bindings' = bindings
  BY DEF FinishAddResource
<1>1. Original' = Original
  BY <1>0 DEF Original
<1>2. StepsOK /\ WorkOK /\ ProgramOK /\ BindingsOK /\ OnceOK /\ KeptOK
  BY DEF DInv
<1>3. steps # <<>> /\ IsSequence(steps) /\ \A k \in DOMAIN steps : IsStep(steps[k])
  BY <1>0, <1>2 DEF StepsOK
<1>4. /\ IsSequence(Tail(steps)) /\ \A k \in DOMAIN Tail(steps) : IsStep(Tail(steps)[k])
  BY <1>3, StepsTail
<1>5. \/ /\ phase' = "failed" /\ steps' = steps
         /\ prog' = [prog EXCEPT !.temp_count = count]
      \/ /\ phase' = "steps" /\ steps' = Tail(steps)
         /\ prog' = [prog EXCEPT !.temp_count = count, !.instructions = q]
  BY DEF FinishAddResource
<1>6. StepsOK'
  BY <1>2, <1>3, <1>4, <1>5 DEF StepsOK
<1>7. WorkOK'
  BY <1>0, <1>2 DEF WorkOK
<1>8. BindingsOK'
  BY <1>0, <1>2 DEF BindingsOK
<1>9. /\ IsSequence(p) /\ DOMAIN prog = ProgFields /\ count \in Nat /\ reserved <= count
      /\ reserved \in Nat
  BY <1>2 DEF ProgramOK, WorkOK
<1>10. IsSequence(Original) /\ Kept(Original, p) /\ (InFront(Original) => InFront(p))
  BY <1>0, <1>2 DEF KeptOK
<1>11. OncePerClass(p, Original)
  BY <1>2 DEF OnceOK
<1>12. /\ IsSequence(q) /\ Kept(Original, q) /\ (InFront(Original) => InFront(q))
       /\ OncePerClass(q, Original)
  BY <1>9, <1>10, <1>11, EnsureKeeps
<1> HIDE DEF count, q
<1>13. /\ DOMAIN prog' = ProgFields /\ prog'.temp_count = count
       /\ prog'.instructions \in {p, q}
  BY <1>5, <1>9 DEF ProgFields
<1>14. ProgramOK'
  BY <1>0, <1>2, <1>5, <1>9, <1>12, <1>13 DEF ProgramOK
<1>15. OnceOK'
  BY <1>1, <1>11, <1>12, <1>13 DEF OnceOK
<1>16. KeptOK'
  BY <1>0, <1>1, <1>2, <1>10, <1>12, <1>13 DEF KeptOK
<1> QED BY <1>6, <1>7, <1>8, <1>14, <1>15, <1>16 DEF DInv

LEMMA DFinish == DInv /\ Finish => DInv'
<1> SUFFICES ASSUME DInv, Finish PROVE DInv'
  OBVIOUS
<1> DEFINE p == prog.instructions
           q == IF modified' THEN EnsureTempDeclaration(p, prog.temp_count + pool.size) ELSE p
<1>0. /\ phase = "steps" /\ phase' = "done" /\ input' = input /\ steps' = steps
      /\ todo' = todo /\ temps' = temps /\ offset' = offset /\ pool' = pool
      /\ reserved' = reserved /\ bindings' = bindings
      /\ prog' = [prog EXCEPT !.instructions = q]
  BY DEF Finish
<1>1. Original' = Original
  BY <1>0 DEF Original
<1>2. StepsOK /\ WorkOK /\ ProgramOK /\ BindingsOK /\ OnceOK /\ KeptOK
  BY DEF DInv
<1>3. IsSequence(p) /\ DOMAIN prog = ProgFields
  BY <1>2 DEF ProgramOK
<1>4. /\ IsSequence(Original) /\ Kept(Original, p) /\ (InFront(Original) => InFront(p))
      /\ OncePerClass(p, Original)
  BY <1>0, <1>2 DEF KeptOK, OnceOK
<1>5. /\ IsSequence(q) /\ Kept(Original, q) /\ (InFront(Original) => InFront(q))
      /\ OncePerClass(q, Original)
  BY <1>3, <1>4, EnsureKeeps
<1> HIDE DEF q
<1>6. /\ DOMAIN prog' = ProgFields /\ prog'.temp_count = prog.temp_count
      /\ prog'.instructions = q
  BY <1>0, <1>3 DEF ProgFields
<1>7. StepsOK' /\ WorkOK' /\ BindingsOK'
  BY <1>0, <1>2 DEF StepsOK, WorkOK, BindingsOK
<1>8. ProgramOK'
  BY <1>0, <1>2, <1>5, <1>6 DEF ProgramOK
<1>9. OnceOK'
  BY <1>1, <1>5, <1>6 DEF OnceOK
<1>10. KeptOK'
  BY <1>0, <1>1, <1>2, <1>4, <1>5, <1>6 DEF KeptOK
<1> QED BY <1>7, <1>8, <1>9, <1>10 DEF DInv

LEMMA DStutter == DInv /\ UNCHANGED vars => DInv'
<1> SUFFICES ASSUME DInv, UNCHANGED vars PROVE DInv'
  OBVIOUS
<1>1. Original' = Original
  BY DEF Original, vars
<1> QED BY <1>1 DEF vars, DInv, StepsOK, WorkOK, ProgramOK, BindingsOK, OnceOK, KeptOK

LEMMA DInductive == DInv /\ [Next]_vars => DInv'
BY DOpen, DDeclareTemplate, DBeginAddResource, DAddDeclaration, DAddTemporary,
   DFinishAddResource, DFinish, DStutter DEF Next

(* No recipe declares a register twice or binds a handle to a register its *)
(* class does not have, whatever is declared, in whatever order.           *)
THEOREM DeclaredOnceHolds == Spec => []DeclaredOnce
<1>1. DInv => DeclaredOnce
  BY DEF DInv, OnceOK, BindingsOK, DeclaredOnce
<1> QED BY <1>1, DInit, DInductive, PTL DEF Spec

(* The instructions of the original program are kept in their order, and   *)
(* declarations that stood in front of the code do so however many are     *)
(* added.                                                                  *)
THEOREM CodeKeptHolds == Spec => []CodeKept
<1>1. DInv => CodeKept
  BY KeptIsKept DEF DInv, ProgramOK, KeptOK, CodeKept
<1> QED BY <1>1, DInit, DInductive, PTL DEF Spec

-----------------------------------------------------------------------------
(* The invariant of temporaries.                                           *)

(* docs/sm5_recipe_schema.md: "every declare_template step must precede    *)
(* every add_resource step".                                               *)
TemplatesFirst(recipe) ==
  \A j, k \in DOMAIN recipe :
    recipe[k].type = "declare_template" /\ j < k => recipe[j].type = "declare_template"

Temporaries == DOMAIN bindings["temp"]

OrderOK ==
  /\ TemplatesFirst(steps)
  /\ Temporaries # {} => \A k \in DOMAIN steps : steps[k].type # "declare_template"
  /\ phase = "closed" => Temporaries = {}

PoolOK == pool = [base |-> 0, size |-> 0] \/ pool.base = reserved

(* Temporaries lie behind the pool and before what is counted.             *)
PlacedOK ==
  /\ DOMAIN widths = Temporaries
  /\ \A h \in Temporaries :
       /\ bindings["temp"][h] \in Nat /\ widths[h] \in Nat \ {0}
       /\ reserved + pool.size <= bindings["temp"][h]
       /\ bindings["temp"][h] + widths[h] <= prog.temp_count + pool.size + offset

ApartOK ==
  \A g, h \in Temporaries :
    \/ g = h
    \/ bindings["temp"][g] + widths[g] <= bindings["temp"][h]
    \/ bindings["temp"][h] + widths[h] <= bindings["temp"][g]

(* What has temporaries is declared when it is written.                    *)
CoverOK ==
  /\ phase = "adding" /\ Head(steps).temps = <<>> => temps = <<>>
  /\ phase \notin {"closed", "failed"} /\ reserved # 0 => Covers(prog.instructions, reserved)
  /\ phase = "done" /\ modified /\ Temporaries # {}
       => Covers(prog.instructions, prog.temp_count + pool.size)

TInv == OrderOK /\ PoolOK /\ PlacedOK /\ ApartOK /\ CoverOK

LEMMA TInit ==
  ASSUME \A recipe \in Recipes : TemplatesFirst(recipe)
  PROVE  Init => TInv
BY DEF Init, TInv, OrderOK, PoolOK, PlacedOK, ApartOK, CoverOK, Temporaries, NoBindings

LEMMA TOpen == DInv /\ TInv /\ Open => TInv'
<1> SUFFICES ASSUME DInv, TInv, Open PROVE TInv'
  OBVIOUS
<1>0. /\ phase = "closed" /\ steps' = steps /\ temps' = temps /\ offset' = offset
      /\ bindings' = bindings /\ widths' = widths /\ pool' = pool
      /\ input \in Inputs /\ pool = [base |-> 0, size |-> 0]
      /\ phase' \in {"failed", "steps"}
  BY DEF Open, DInv, KeptOK, ProgramOK
<1> DEFINE p == Parsed(ReadChunks(input))
<1>1. \/ phase' = "failed"
      \/ ~Rejected(input) /\ prog' = p /\ reserved' = p.temp_count
  BY DEF Open
<1>2. Temporaries = {} /\ Temporaries' = {}
  BY <1>0 DEF TInv, OrderOK, Temporaries
<1>3. OrderOK'
  BY <1>0, <1>2 DEF TInv, OrderOK
<1>4. PoolOK'
  BY <1>0 DEF PoolOK
<1>5. PlacedOK' /\ ApartOK'
  BY <1>0, <1>2 DEF TInv, PlacedOK, ApartOK
<1>6. CoverOK'
  <2>1. CASE phase' = "failed"
    BY <1>2, <2>1 DEF CoverOK
  <2>2. CASE ~Rejected(input) /\ prog' = p /\ reserved' = p.temp_count
    <3>1. p.temp_count # 0 => Covers(p.instructions, p.temp_count)
      BY <1>0, <2>2, ParsedIs
    <3> HIDE DEF p
    <3>2. reserved' # 0 => Covers(prog'.instructions, reserved')
      BY <2>2, <3>1
    <3> QED BY <1>0, <1>2, <3>2 DEF CoverOK
  <2> QED BY <1>1, <2>1, <2>2
<1> QED BY <1>3, <1>4, <1>5, <1>6 DEF TInv

LEMMA TDeclareTemplate == DInv /\ TInv /\ DeclareTemplate => TInv'
<1> SUFFICES ASSUME DInv, TInv, DeclareTemplate PROVE TInv'
  OBVIOUS
<1>0. /\ phase = "steps" /\ phase' = phase /\ steps # <<>> /\ steps' = Tail(steps)
      /\ Head(steps).type = "declare_template" /\ IsSequence(steps)
      /\ temps' = temps /\ offset' = offset /\ prog' = prog
      /\ bindings' = bindings /\ widths' = widths
      /\ reserved' = reserved
  BY DEF DeclareTemplate, DInv, StepsOK
<1>1. /\ 1 \in DOMAIN steps /\ Head(steps) = steps[1]
      /\ \A k \in DOMAIN Tail(steps) : k + 1 \in DOMAIN steps /\ Tail(steps)[k] = steps[k + 1]
      /\ DOMAIN Tail(steps) \subseteq Nat
  BY <1>0, HeadTail, SequenceDomain
<1>2. Temporaries = {} /\ Temporaries' = {}
  BY <1>0, <1>1 DEF TInv, OrderOK, Temporaries
<1>3. OrderOK'
  <2>1. TemplatesFirst(steps')
    BY <1>0, <1>1 DEF TInv, OrderOK, TemplatesFirst
  <2> QED BY <1>0, <1>2, <2>1 DEF OrderOK
<1>4. PoolOK'
  <2>1. pool \in [base : Nat, size : Nat]
    BY DEF DInv, ProgramOK
  <2>2. CASE pool = [base |-> 0, size |-> 0]
    BY <1>0, <2>2 DEF DeclareTemplate, PoolOK
  <2>3. CASE pool.base = reserved
    BY <1>0, <2>3 DEF DeclareTemplate, PoolOK
  <2> QED BY <2>2, <2>3 DEF TInv, PoolOK
<1>5. PlacedOK' /\ ApartOK'
  BY <1>0, <1>2 DEF TInv, PlacedOK, ApartOK
<1>6. CoverOK'
  BY <1>0, <1>2 DEF TInv, CoverOK
<1> QED BY <1>3, <1>4, <1>5, <1>6 DEF TInv

LEMMA TBeginAddResource == DInv /\ TInv /\ BeginAddResource => TInv'
<1> SUFFICES ASSUME DInv, TInv, BeginAddResource PROVE TInv'
  OBVIOUS
<1>0. /\ phase = "steps" /\ phase' = "adding" /\ steps' = steps
      /\ temps' = Head(steps).temps /\ offset' = offset /\ prog' = prog
      /\ bindings' = bindings /\ widths' = widths
      /\ reserved' = reserved /\ pool' = pool
  BY DEF BeginAddResource, DInv, WorkOK
<1>1. Temporaries' = Temporaries
  BY <1>0 DEF Temporaries
<1>2. OrderOK' /\ PoolOK' /\ PlacedOK' /\ ApartOK'
  BY <1>0, <1>1 DEF TInv, OrderOK, PoolOK, PlacedOK, ApartOK
<1>3. CoverOK'
  BY <1>0, <1>1 DEF TInv, CoverOK
<1> QED BY <1>2, <1>3 DEF TInv

(* Declarations of other classes leave the temporaries alone.              *)
LEMMA TAddDeclaration == DInv /\ TInv /\ AddDeclaration => TInv'
<1> SUFFICES ASSUME DInv, TInv, AddDeclaration PROVE TInv'
  OBVIOUS
<1>0. /\ phase = "adding" /\ steps' = steps /\ temps' = temps /\ offset' = offset
      /\ widths' = widths /\ pool' = pool /\ reserved' = reserved
      /\ phase' \in {"adding", "failed"} /\ todo # <<>>
  BY DEF AddDeclaration, Refuse
<1> DEFINE decl == Head(todo)
           p == prog.instructions
<1>1. /\ IsSequence(p) /\ DOMAIN prog = ProgFields /\ DOMAIN bindings = Classes \cup {"temp"}
      /\ decl.class \in Classes
  <2>1. IsDeclaration(decl)
    BY <1>0, HeadTail DEF DInv, WorkOK
  <2> QED BY <2>1 DEF IsDeclaration, DInv, ProgramOK, BindingsOK
<1>2. \/ prog' = prog /\ bindings' = bindings
      \/ \E r, f : /\ prog' = [prog EXCEPT !.instructions =
                                 InsertAfter(p, InsertBehind(decl), BuildDeclaration(decl, r))]
                   /\ bindings' = [bindings EXCEPT ![decl.class] = f]
  BY DEF AddDeclaration, Refuse
<1>3. /\ bindings'["temp"] = bindings["temp"] /\ prog'.temp_count = prog.temp_count
      /\ \A n : Covers(p, n) => Covers(prog'.instructions, n)
  <2>1. CASE prog' = prog /\ bindings' = bindings
    BY <2>1
  <2>2. ASSUME NEW r, NEW f,
               prog' = [prog EXCEPT !.instructions =
                          InsertAfter(p, InsertBehind(decl), BuildDeclaration(decl, r))],
               bindings' = [bindings EXCEPT ![decl.class] = f]
        PROVE  /\ bindings'["temp"] = bindings["temp"] /\ prog'.temp_count = prog.temp_count
               /\ \A n : Covers(p, n) => Covers(prog'.instructions, n)
    <3> DEFINE new == BuildDeclaration(decl, r)
               q == InsertAfter(p, InsertBehind(decl), new)
    <3>1. Inserted(p, q, LastOf(p, InsertBehind(decl)), new)
      BY <1>1, InsertAfterInserts
    <3>2. \A n : Covers(p, n) => Covers(q, n)
      BY <1>1, <3>1, CoversInserted
    <3>3. decl.class # "temp"
      BY <1>1 DEF Classes, Textures
    <3> HIDE DEF q
    <3>4. prog'.instructions = q /\ prog'.temp_count = prog.temp_count
      BY <1>1, <2>2 DEF ProgFields, q
    <3>5. bindings'["temp"] = bindings["temp"]
      BY <1>1, <2>2, <3>3
    <3> QED BY <3>2, <3>4, <3>5
  <2> QED BY <1>2, <2>1, <2>2
<1>4. Temporaries' = Temporaries
  BY <1>3 DEF Temporaries
<1>5. OrderOK' /\ PoolOK' /\ PlacedOK' /\ ApartOK'
  BY <1>0, <1>3, <1>4 DEF TInv, OrderOK, PoolOK, PlacedOK, ApartOK
<1>6. CoverOK'
  BY <1>0, <1>3, <1>4 DEF TInv, CoverOK
<1> QED BY <1>5, <1>6 DEF TInv

LEMMA TAddTemporary == DInv /\ TInv /\ AddTemporary => TInv'
<1> SUFFICES ASSUME DInv, TInv, AddTemporary PROVE TInv'
  OBVIOUS
<1> DEFINE new == Head(temps)
           base == TempBase + offset
<1>0. /\ phase = "adding" /\ phase' = phase /\ steps' = steps /\ prog' = prog
      /\ pool' = pool /\ reserved' = reserved
      /\ temps # <<>> /\ temps' = Tail(temps) /\ offset' = offset + new.count
      /\ widths' = [h \in DOMAIN widths \cup {new.handle} |->
                      IF h = new.handle THEN new.count ELSE widths[h]]
      /\ bindings' = [bindings EXCEPT !["temp"] =
                        [h \in DOMAIN @ \cup {new.handle} |->
                           IF h = new.handle THEN base ELSE @[h]]]
  BY DEF AddTemporary
<1>1. /\ new.count \in Nat \ {0} /\ offset \in Nat /\ prog.temp_count \in Nat
      /\ pool.size \in Nat /\ reserved \in Nat /\ reserved <= prog.temp_count
      /\ "temp" \in DOMAIN bindings /\ base = prog.temp_count + pool.size + offset
  BY <1>0, HeadTail DEF DInv, WorkOK, ProgramOK, BindingsOK, TempBase
<1> HIDE DEF new, base
<1>2. bindings'["temp"] = [h \in Temporaries \cup {new.handle} |->
                             IF h = new.handle THEN base ELSE bindings["temp"][h]]
  BY <1>0, <1>1 DEF Temporaries
<1>3. /\ Temporaries' = Temporaries \cup {new.handle}
      /\ DOMAIN widths = Temporaries /\ DOMAIN widths' = Temporaries'
  BY <1>0, <1>2 DEF Temporaries, TInv, PlacedOK
<1>4. /\ bindings'["temp"][new.handle] = base /\ widths'[new.handle] = new.count
      /\ \A h \in Temporaries' : h # new.handle =>
           /\ h \in Temporaries
           /\ bindings'["temp"][h] = bindings["temp"][h] /\ widths'[h] = widths[h]
  BY <1>0, <1>2, <1>3
<1>5. \A h \in Temporaries :
        /\ bindings["temp"][h] \in Nat /\ widths[h] \in Nat \ {0}
        /\ reserved + pool.size <= bindings["temp"][h]
        /\ bindings["temp"][h] + widths[h] <= base
  BY <1>1 DEF TInv, PlacedOK
<1>6. PlacedOK'
  <2>1. ASSUME NEW h \in Temporaries'
        PROVE  /\ bindings'["temp"][h] \in Nat /\ widths'[h] \in Nat \ {0}
               /\ reserved + pool.size <= bindings'["temp"][h]
               /\ bindings'["temp"][h] + widths'[h] <= prog.temp_count + pool.size + offset'
    <3>1. CASE h = new.handle
      BY <1>0, <1>1, <1>4, <3>1
    <3>2. CASE h # new.handle
      <4>1. /\ h \in Temporaries
            /\ bindings'["temp"][h] = bindings["temp"][h] /\ widths'[h] = widths[h]
        BY <1>4, <2>1, <3>2
      <4>2. /\ bindings["temp"][h] \in Nat /\ widths[h] \in Nat \ {0}
            /\ reserved + pool.size <= bindings["temp"][h]
            /\ bindings["temp"][h] + widths[h] <= base
        BY <1>5, <4>1
      <4>3. base <= prog.temp_count + pool.size + offset'
        BY <1>0, <1>1
      <4>4. base \in Nat /\ prog.temp_count + pool.size + offset' \in Nat
        BY <1>0, <1>1
      <4> QED BY <4>1, <4>2, <4>3, <4>4
    <3> QED BY <3>1, <3>2
  <2> QED BY <1>0, <1>3, <2>1 DEF PlacedOK
<1>7. ApartOK'
  <2>1. ASSUME NEW g \in Temporaries', NEW h \in Temporaries', g # h
        PROVE  \/ bindings'["temp"][g] + widths'[g] <= bindings'["temp"][h]
               \/ bindings'["temp"][h] + widths'[h] <= bindings'["temp"][g]
    <3>1. CASE g = new.handle
      BY <1>4, <1>5, <2>1, <3>1
    <3>2. CASE h = new.handle
      BY <1>4, <1>5, <2>1, <3>2
    <3>3. CASE g # new.handle /\ h # new.handle
      BY <1>4, <2>1, <3>3 DEF TInv, ApartOK
    <3> QED BY <3>1, <3>2, <3>3
  <2> QED BY <2>1 DEF ApartOK
<1>8. OrderOK'
  <2>1. Head(steps).type = "add_resource" /\ steps # <<>> /\ IsSequence(steps)
    BY <1>0 DEF DInv, StepsOK
  <2>2. \A k \in DOMAIN steps : steps[k].type # "declare_template"
    <3>1. /\ 1 \in DOMAIN steps /\ Head(steps) = steps[1] /\ DOMAIN steps = 1..Len(steps)
          /\ Len(steps) \in Nat
      BY <2>1, HeadTail, SequenceDomain
    <3>2. steps[1].type # "declare_template"
      BY <2>1, <3>1
    <3> QED BY <3>1, <3>2 DEF TInv, OrderOK, TemplatesFirst
  <2> QED BY <1>0, <2>2 DEF TInv, OrderOK
<1>9. PoolOK'
  BY <1>0 DEF TInv, PoolOK
<1>10. CoverOK'
  <2>1. Head(steps).temps # <<>>
    BY <1>0 DEF TInv, CoverOK
  <2> QED BY <1>0, <2>1 DEF TInv, CoverOK
<1> QED BY <1>6, <1>7, <1>8, <1>9, <1>10 DEF TInv

(* Ensured for n registers, a program covers n and what it covered before. *)
LEMMA EnsuredCovers ==
  ASSUME NEW p, IsSequence(p), NEW n \in Nat, NEW m \in Nat, m <= n, m # 0
  PROVE  Covers(EnsureTempDeclaration(p, n), n) /\ Covers(EnsureTempDeclaration(p, n), m)
<1>1. Covers(EnsureTempDeclaration(p, n), n)
  BY EnsureCovers
<1>2. PICK k \in Declaring(EnsureTempDeclaration(p, n), {"dcl_temps"}) :
        /\ Register(EnsureTempDeclaration(p, n)[k]) \in Nat
        /\ Register(EnsureTempDeclaration(p, n)[k]) >= n
  BY <1>1 DEF Covers
<1>3. Register(EnsureTempDeclaration(p, n)[k]) >= m
  BY <1>2
<1> QED BY <1>1, <1>2, <1>3 DEF Covers

(* Where there are temporaries, there is something to cover.               *)
LEMMA SomethingToCover ==
  ASSUME DInv, TInv, Temporaries # {}
  PROVE  prog.temp_count + pool.size + offset # 0
<1>1. PICK h \in Temporaries : TRUE
  OBVIOUS
<1>2. /\ bindings["temp"][h] \in Nat /\ widths[h] \in Nat \ {0}
      /\ bindings["temp"][h] + widths[h] <= prog.temp_count + pool.size + offset
  BY DEF TInv, PlacedOK
<1> QED BY <1>2

LEMMA TFinishAddResource == DInv /\ TInv /\ FinishAddResource => TInv'
<1> SUFFICES ASSUME DInv, TInv, FinishAddResource PROVE TInv'
  OBVIOUS
<1> DEFINE count == prog.temp_count + offset
           added == Head(steps).temps # <<>>
           p == prog.instructions
           q == EnsureTempDeclaration(p, count + pool.size)
<1>0. /\ phase = "adding" /\ temps = <<>> /\ temps' = temps /\ offset' = 0 /\ pool' = pool
      /\ reserved' = reserved /\ bindings' = bindings /\ widths' = widths
      /\ steps # <<>> /\ IsSequence(steps)
  BY DEF FinishAddResource, DInv, StepsOK
<1>1. \/ /\ phase' = "failed" /\ steps' = steps
         /\ prog' = [prog EXCEPT !.temp_count = count]
      \/ /\ phase' = "steps" /\ steps' = Tail(steps)
         /\ prog' = [prog EXCEPT !.temp_count = count, !.instructions = q]
  BY DEF FinishAddResource
<1>2. /\ DOMAIN prog = ProgFields /\ IsSequence(p)
      /\ count \in Nat /\ reserved \in Nat /\ reserved <= count /\ pool.size \in Nat
      /\ prog.temp_count \in Nat /\ offset \in Nat
  BY DEF DInv, ProgramOK, WorkOK
<1>3. Temporaries' = Temporaries
  BY <1>0 DEF Temporaries
<1>4. OrderOK'
  <2>1. /\ \A k \in DOMAIN Tail(steps) :
             k + 1 \in DOMAIN steps /\ Tail(steps)[k] = steps[k + 1]
        /\ DOMAIN Tail(steps) \subseteq Nat
    BY <1>0, HeadTail, SequenceDomain
  <2>2. TemplatesFirst(Tail(steps))
    BY <2>1 DEF TInv, OrderOK, TemplatesFirst
  <2> QED BY <1>0, <1>1, <1>3, <2>1, <2>2 DEF TInv, OrderOK
<1>5. PoolOK'
  BY <1>0 DEF TInv, PoolOK
<1> HIDE DEF q
<1>6. prog'.temp_count = count /\ (phase' = "steps" => prog'.instructions = q)
  BY <1>1, <1>2 DEF ProgFields
<1>7. prog'.temp_count + pool.size + offset' = prog.temp_count + pool.size + offset
  BY <1>0, <1>2, <1>6
<1>8. PlacedOK' /\ ApartOK'
  BY <1>0, <1>3, <1>7 DEF TInv, PlacedOK, ApartOK
<1>9. CoverOK'
  <2>1. CASE phase' = "failed"
    BY <2>1 DEF CoverOK
  <2>2. CASE phase' = "steps"
    <3>2. reserved # 0 => Covers(q, reserved)
      BY <1>2, EnsuredCovers DEF q
    <3> QED BY <1>0, <1>3, <1>6, <2>2, <3>2 DEF CoverOK
  <2> QED BY <1>1, <2>1, <2>2
<1> QED BY <1>4, <1>5, <1>8, <1>9 DEF TInv

LEMMA TFinish == DInv /\ TInv /\ Finish => TInv'
<1> SUFFICES ASSUME DInv, TInv, Finish PROVE TInv'
  OBVIOUS
<1> DEFINE p == prog.instructions
           count == prog.temp_count + pool.size
           q == IF modified' THEN EnsureTempDeclaration(p, count) ELSE p
<1>0. /\ phase = "steps" /\ phase' = "done" /\ steps' = steps /\ offset' = offset
      /\ temps' = temps /\ pool' = pool /\ reserved' = reserved /\ bindings' = bindings
      /\ widths' = widths /\ offset = 0
      /\ prog' = [prog EXCEPT !.instructions = q]
  BY DEF Finish, DInv, WorkOK
<1>1. /\ DOMAIN prog = ProgFields /\ IsSequence(p)
      /\ count \in Nat /\ reserved \in Nat /\ reserved <= count
      /\ prog.temp_count \in Nat /\ pool.size \in Nat
  BY DEF DInv, ProgramOK
<1>2. Temporaries' = Temporaries
  BY <1>0 DEF Temporaries
<1>3. reserved # 0 => Covers(q, reserved)
  <2>1. CASE modified'
    BY <1>1, <2>1, EnsuredCovers
  <2>2. CASE ~modified'
    BY <1>0, <2>2 DEF TInv, CoverOK
  <2> QED BY <2>1, <2>2
<1>4. modified' /\ Temporaries # {} => Covers(q, count)
  <2> SUFFICES ASSUME modified', Temporaries # {} PROVE Covers(q, count)
    OBVIOUS
  <2>2. count # 0
    BY <1>0, <1>1, SomethingToCover
  <2> QED BY <1>1, <2>2, EnsureCovers
<1> HIDE DEF q
<1>5. prog'.temp_count = prog.temp_count /\ prog'.instructions = q
  BY <1>0, <1>1 DEF ProgFields
<1>6. OrderOK' /\ PoolOK' /\ PlacedOK' /\ ApartOK'
  BY <1>0, <1>2, <1>5 DEF TInv, OrderOK, PoolOK, PlacedOK, ApartOK
<1>7. CoverOK'
  BY <1>0, <1>2, <1>3, <1>4, <1>5 DEF CoverOK
<1> QED BY <1>6, <1>7 DEF TInv

LEMMA TStutter == TInv /\ UNCHANGED vars => TInv'
<1> SUFFICES ASSUME TInv, UNCHANGED vars PROVE TInv'
  OBVIOUS
<1>1. Temporaries' = Temporaries
  BY DEF Temporaries, vars
<1> QED BY <1>1 DEF vars, TInv, OrderOK, PoolOK, PlacedOK, ApartOK, CoverOK

LEMMA TInductive == DInv /\ TInv /\ [Next]_vars => TInv'
BY TOpen, TDeclareTemplate, TBeginAddResource, TAddDeclaration, TAddTemporary,
   TFinishAddResource, TFinish, TStutter DEF Next

LEMMA TImplies == DInv /\ TInv => TempsApart
<1> SUFFICES ASSUME DInv, TInv PROVE TempsApart
  OBVIOUS
<1>1. /\ pool.base \in Nat /\ pool.size \in Nat /\ reserved \in Nat /\ offset \in Nat
      /\ prog.temp_count \in Nat
  BY DEF DInv, ProgramOK, WorkOK
<1>2. ASSUME NEW h \in Temporaries
      PROVE  /\ bindings["temp"][h] \in Nat /\ widths[h] \in Nat
             /\ reserved + pool.size <= bindings["temp"][h]
             /\ bindings["temp"][h] + widths[h] <= prog.temp_count + pool.size + offset
  BY DEF TInv, PlacedOK
<1>3. ASSUME NEW g \in Temporaries, NEW h \in Temporaries, g # h
      PROVE  BlockOf(g) \cap BlockOf(h) = {}
  <2>1. \/ bindings["temp"][g] + widths[g] <= bindings["temp"][h]
        \/ bindings["temp"][h] + widths[h] <= bindings["temp"][g]
    BY <1>3 DEF TInv, ApartOK
  <2>2. ASSUME NEW r \in BlockOf(g), r \in BlockOf(h) PROVE FALSE
    BY <1>2, <2>1, <2>2 DEF BlockOf, Block
  <2> QED BY <2>2
<1>4. ASSUME NEW h \in Temporaries, NEW r \in BlockOf(h)
      PROVE  /\ r >= reserved /\ r \notin Block(pool.base, pool.size)
             /\ r < prog.temp_count + pool.size + offset /\ r \in Nat
  <2>1. r \in Nat /\ r >= reserved + pool.size /\ r < prog.temp_count + pool.size + offset
    BY <1>1, <1>2 DEF BlockOf, Block
  <2>2. pool.base = reserved \/ pool.size = 0
    BY DEF TInv, PoolOK
  <2> QED BY <1>1, <2>1, <2>2 DEF Block
<1>5. ASSUME phase = "done", modified,
             NEW r \in Block(0, reserved) \cup (UNION {BlockOf(h) : h \in Temporaries})
      PROVE  \E k \in Declaring(prog.instructions, {"dcl_temps"}) :
               r < Register(prog.instructions[k])
  <2>1. PICK n \in Nat : r < n /\ r \in Int /\ Covers(prog.instructions, n)
    <3>1. CASE r \in Block(0, reserved)
      <4>1. r \in Int /\ r < reserved /\ reserved # 0
        BY <1>1, <3>1 DEF Block
      <4>2. Covers(prog.instructions, reserved)
        BY <1>5, <4>1 DEF TInv, CoverOK
      <4> QED BY <1>1, <4>1, <4>2
    <3>2. CASE \E h \in Temporaries : r \in BlockOf(h)
      <4>1. offset = 0 /\ Temporaries # {}
        BY <1>5, <3>2 DEF DInv, WorkOK
      <4>2. r \in Nat /\ r < prog.temp_count + pool.size
        BY <1>1, <1>4, <3>2, <4>1
      <4>3. Covers(prog.instructions, prog.temp_count + pool.size)
        BY <1>5, <4>1 DEF TInv, CoverOK
      <4> QED BY <1>1, <4>2, <4>3
    <3>3. r \in Block(0, reserved) \/ \E h \in Temporaries : r \in BlockOf(h)
      BY <1>5
    <3> QED BY <3>1, <3>2, <3>3
  <2>2. PICK k \in Declaring(prog.instructions, {"dcl_temps"}) :
          Register(prog.instructions[k]) \in Nat /\ Register(prog.instructions[k]) >= n
    BY <2>1 DEF Covers
  <2>3. r < Register(prog.instructions[k])
    BY <2>1, <2>2
  <2> QED BY <2>3
<1> QED BY <1>3, <1>4, <1>5 DEF TempsApart, Temporaries

(* When the templates of every recipe come first, as the documentation     *)
(* asks, the temporaries of a recipe overlap with no other temporary, with *)
(* nothing of the original program and not with the pool, and a patched    *)
(* program declares them all when it is written.                           *)
THEOREM TempsApartHolds ==
  ASSUME \A recipe \in Recipes : TemplatesFirst(recipe)
  PROVE  Spec => []TempsApart
<1>1. Init => TInv
  BY TInit
<1> QED BY <1>1, DInit, DInductive, TInductive, TImplies, PTL DEF Spec

-----------------------------------------------------------------------------
(* Containers: what is read of them and how they are written.              *)

LEMMA UpTo ==
  ASSUME NEW n \in Nat
  PROVE  /\ IsFiniteSet(1..n) /\ Cardinality(1..n) = n
         /\ IsFiniteSet(0..(n - 1)) /\ Cardinality(0..(n - 1)) = n
<1>1. 1 \in Int /\ 0 \in Int /\ n \in Int /\ n - 1 \in Int
  OBVIOUS
<1>2. IsFiniteSet(1..n) /\ Cardinality(1..n) = IF 1 > n THEN 0 ELSE n - 1 + 1
  BY <1>1, FS_Interval
<1>3. IsFiniteSet(0..(n - 1)) /\ Cardinality(0..(n - 1)) = IF 0 > n - 1 THEN 0 ELSE n - 1 - 0 + 1
  BY <1>1, FS_Interval
<1> QED BY <1>2, <1>3

(* The place of s[k] among the values of s in order. *)
Before(s, k) == {j \in DOMAIN s : s[j] < s[k] \/ (s[j] = s[k] /\ j < k)}

LEMMA BeforeCounts ==
  ASSUME NEW s \in Seq(Nat), NEW k \in DOMAIN s
  PROVE  IsFiniteSet(Before(s, k)) /\ Cardinality(Before(s, k)) \in 0..(Len(s) - 1)
<1>1. Len(s) \in Nat /\ DOMAIN s = 1..Len(s)
  BY LenProperties
<1>2. IsFiniteSet(1..Len(s)) /\ Cardinality(1..Len(s)) = Len(s)
  BY <1>1, UpTo
<1>3. Before(s, k) \in SUBSET (1..Len(s)) /\ k \notin Before(s, k)
  BY <1>1 DEF Before
<1>4. IsFiniteSet(Before(s, k)) /\ Cardinality(Before(s, k)) <= Len(s)
      /\ Cardinality(Before(s, k)) # Len(s)
  BY <1>1, <1>2, <1>3, FS_Subset
<1>5. Cardinality(Before(s, k)) \in Nat
  BY <1>4, FS_CardinalityType
<1> QED BY <1>1, <1>4, <1>5

LEMMA BeforeApart ==
  ASSUME NEW s \in Seq(Nat), NEW j \in DOMAIN s, NEW k \in DOMAIN s, j # k
  PROVE  Cardinality(Before(s, j)) # Cardinality(Before(s, k))
<1>1. DOMAIN s = 1..Len(s) /\ Len(s) \in Nat /\ \A i \in DOMAIN s : s[i] \in Nat
  BY LenProperties, ElementOfSeq
<1>2. ASSUME NEW a \in DOMAIN s, NEW b \in DOMAIN s,
             s[a] < s[b] \/ (s[a] = s[b] /\ a < b)
      PROVE  Cardinality(Before(s, a)) # Cardinality(Before(s, b))
  <2>1. Before(s, a) \in SUBSET Before(s, b)
    BY <1>1, <1>2 DEF Before
  <2>2. a \in Before(s, b) /\ a \notin Before(s, a)
    BY <1>1, <1>2 DEF Before
  <2> QED BY <2>1, <2>2, BeforeCounts, FS_Subset
<1>3. s[j] < s[k] \/ s[k] < s[j] \/ (s[j] = s[k] /\ (j < k \/ k < j))
  BY <1>1
<1> QED BY <1>2, <1>3

(* The values in order are values of the sequence. *)
LEMMA AscendingIn ==
  ASSUME NEW s \in Seq(Nat)
  PROVE  /\ Ascending(s) \in Seq(Nat) /\ Len(Ascending(s)) = Len(s)
         /\ \A n \in DOMAIN s : Ascending(s)[n] \in Range(s)
<1>1. Len(s) \in Nat /\ DOMAIN s = 1..Len(s) /\ \A i \in DOMAIN s : s[i] \in Nat
  BY LenProperties, ElementOfSeq
<1> DEFINE N == Len(s)
           T == 0..(N - 1)
<1>2. PICK rank : rank = [k \in DOMAIN s |-> Cardinality(Before(s, k))]
  OBVIOUS
<1>3. rank \in [DOMAIN s -> T]
  BY <1>2, BeforeCounts
<1>4. rank \in Injection(DOMAIN s, T)
  BY <1>2, <1>3, BeforeApart DEF Injection, IsInjective
<1>5. rank \in Surjection(DOMAIN s, T)
  <2>1. IsFiniteSet(T) /\ Cardinality(T) = N
    BY <1>1, UpTo
  <2>2. Cardinality(DOMAIN s) = N
    BY <1>1, UpTo
  <2> QED BY <1>4, <2>1, <2>2, FS_Injection
<1>6. ASSUME NEW n \in DOMAIN s PROVE \E k \in DOMAIN s : Cardinality(Before(s, k)) = n - 1
  <2>1. n - 1 \in T
    BY <1>1
  <2>2. \E k \in DOMAIN s : rank[k] = n - 1
    BY <1>5, <2>1 DEF Surjection
  <2> QED BY <1>2, <2>2
<1>7. Ascending(s) = [n \in DOMAIN s |->
                        s[CHOOSE k \in DOMAIN s : Cardinality(Before(s, k)) = n - 1]]
  BY DEF Ascending, Before
<1>8. \A n \in DOMAIN s : Ascending(s)[n] \in Range(s) /\ Ascending(s)[n] \in Nat
  <2> SUFFICES ASSUME NEW n \in DOMAIN s
               PROVE  Ascending(s)[n] \in Range(s) /\ Ascending(s)[n] \in Nat
    OBVIOUS
  <2>1. PICK k \in DOMAIN s : Ascending(s)[n] = s[k]
    BY <1>6, <1>7
  <2> QED BY <1>1, <2>1 DEF Range
<1>9. Ascending(s) \in [1..N -> Nat]
  BY <1>1, <1>7, <1>8
<1>10. Ascending(s) \in Seq(Nat) /\ Len(Ascending(s)) = N
  BY <1>1, <1>9, SeqDef, LenProperties
<1> QED BY <1>8, <1>10

Increasing(s) == \A j, k \in DOMAIN s : j < k => s[j] < s[k]

(* A sequence in order is its own ordering. *)
LEMMA AscendingSame ==
  ASSUME NEW s \in Seq(Nat), Increasing(s)
  PROVE  Ascending(s) = s
<1>1. Len(s) \in Nat /\ DOMAIN s = 1..Len(s) /\ \A i \in DOMAIN s : s[i] \in Nat
  BY LenProperties, ElementOfSeq
<1>2. ASSUME NEW k \in DOMAIN s PROVE Cardinality(Before(s, k)) = k - 1
  <2>1. Before(s, k) = 1..(k - 1)
    BY <1>1 DEF Before, Increasing
  <2>2. k - 1 \in Nat
    BY <1>1
  <2> QED BY <2>1, <2>2, UpTo
<1>3. ASSUME NEW n \in DOMAIN s
      PROVE  (CHOOSE k \in DOMAIN s : Cardinality(Before(s, k)) = n - 1) = n
  <2>1. PICK c : c = CHOOSE k \in DOMAIN s : Cardinality(Before(s, k)) = n - 1
    OBVIOUS
  <2>2. c \in DOMAIN s /\ Cardinality(Before(s, c)) = n - 1
    BY <1>2, <2>1
  <2>3. c - 1 = n - 1
    BY <1>2, <2>2
  <2> QED BY <1>1, <2>1, <2>2, <2>3
<1>4. Ascending(s) = [n \in DOMAIN s |->
                        s[CHOOSE k \in DOMAIN s : Cardinality(Before(s, k)) = n - 1]]
  BY DEF Ascending, Before
<1>5. Ascending(s) = [n \in DOMAIN s |-> s[n]]
  BY <1>3, <1>4
<1>6. s = [n \in DOMAIN s |-> s[n]]
  BY SeqDef
<1> QED BY <1>5, <1>6

(* A function over 0..n that is defined from its previous value exists.    *)
Recurses(S, a, G, n, f) ==
  f \in [0..n -> S] /\ f[0] = a /\ \A m \in 1..n : f[m] = G[m][f[m - 1]]

LEMMA RecursionExists ==
  ASSUME NEW S, NEW a \in S, NEW G \in [Nat -> [S -> S]], NEW n \in Nat
  PROVE  \E f : Recurses(S, a, G, n, f)
<1> DEFINE Is(f, m) == f \in [0..m -> S] /\ f[0] = a
                       /\ \A i \in 1..m : f[i] = G[i][f[i - 1]]
           T == {m \in Nat : \E f : Is(f, m)}
<1>1. 0 \in T
  <2>1. PICK f : f = [i \in 0..0 |-> a]
    OBVIOUS
  <2>2. Is(f, 0)
    BY <2>1
  <2> QED BY <2>2
<1>2. ASSUME NEW m \in Nat, m \in T PROVE m + 1 \in T
  <2>1. PICK f : Is(f, m)
    BY <1>2
  <2>2. f[m] \in S /\ m + 1 \in Nat
    BY <2>1
  <2>3. PICK g : g = [i \in 0..(m + 1) |-> IF i <= m THEN f[i] ELSE G[m + 1][f[m]]]
    OBVIOUS
  <2>4. g \in [0..(m + 1) -> S] /\ g[0] = a
    BY <2>1, <2>2, <2>3
  <2>5. ASSUME NEW i \in 1..(m + 1) PROVE g[i] = G[i][g[i - 1]]
    <3>1. CASE i \in 1..m
      <4>1. i \in 0..(m + 1) /\ i <= m /\ i - 1 \in 0..(m + 1) /\ i - 1 <= m
        BY <3>1
      <4>2. g[i] = f[i] /\ g[i - 1] = f[i - 1]
        BY <2>3, <4>1
      <4> QED BY <2>1, <3>1, <4>2
    <3>2. CASE i = m + 1
      <4>1. g[i] = G[m + 1][f[m]] /\ g[m] = f[m] /\ i - 1 = m
        BY <2>3, <3>2
      <4> QED BY <3>2, <4>1
    <3> QED BY <3>1, <3>2
  <2>6. Is(g, m + 1)
    BY <2>4, <2>5
  <2> QED BY <2>6
<1>3. T = Nat
  <2>1. T \in SUBSET Nat
    OBVIOUS
  <2> HIDE DEF T
  <2> QED BY <2>1, <1>1, <1>2, SetInduction
<1> QED BY <1>3 DEF Recurses

(* The function that ReadChunks is defined by.                             *)
IsRead(c, sorted, n, f) ==
  f = [m \in 0..n |-> IF m = 0 THEN <<>>
                      ELSE IF Fits(c, sorted[m]) THEN Append(f[m - 1], c.at[sorted[m]])
                      ELSE f[m - 1]]

(* What can be read of c.                                                  *)
Readable(c, sorted, n) == {c.at[sorted[m]] : m \in {i \in 1..n : Fits(c, sorted[i])}}

LEMMA ReadExists ==
  ASSUME NEW c, NEW sorted, NEW n \in Nat
  PROVE  \E f : IsRead(c, sorted, n, f)
<1> DEFINE S == Seq(Readable(c, sorted, n))
           G == [m \in Nat |-> [x \in S |->
                   IF m \in 1..n /\ Fits(c, sorted[m]) THEN Append(x, c.at[sorted[m]]) ELSE x]]
<1>1. <<>> \in S
  BY EmptySeq
<1>2. G \in [Nat -> [S -> S]]
  <2> SUFFICES ASSUME NEW m \in Nat, NEW x \in S,
                      m \in 1..n /\ Fits(c, sorted[m])
               PROVE  Append(x, c.at[sorted[m]]) \in S
    OBVIOUS
  <2>1. c.at[sorted[m]] \in Readable(c, sorted, n)
    BY DEF Readable
  <2> QED BY <2>1, AppendProperties
<1> HIDE DEF S
<1>3. \A m \in 1..n : \A x \in S :
        G[m][x] = IF Fits(c, sorted[m]) THEN Append(x, c.at[sorted[m]]) ELSE x
  OBVIOUS
<1> HIDE DEF G
<1>4. PICK f : Recurses(S, <<>>, G, n, f)
  BY <1>1, <1>2, RecursionExists
<1>5. ASSUME NEW m \in 0..n
      PROVE  f[m] = IF m = 0 THEN <<>>
                    ELSE IF Fits(c, sorted[m]) THEN Append(f[m - 1], c.at[sorted[m]])
                    ELSE f[m - 1]
  <2>1. CASE m = 0
    BY <1>4, <2>1 DEF Recurses
  <2>2. CASE m # 0
    <3>1. m \in 1..n /\ f[m - 1] \in S
      BY <1>4, <2>2 DEF Recurses
    <3> QED BY <1>3, <1>4, <2>2, <3>1 DEF Recurses
  <2> QED BY <2>1, <2>2
<1>6. f = [m \in 0..n |-> f[m]]
  BY <1>4 DEF Recurses
<1>7. IsRead(c, sorted, n, f)
  BY <1>5, <1>6, Zenon DEF IsRead
<1> QED BY <1>7

(* ReadChunks is the last value of a function of that kind.                *)
Reads(c, s, f) ==
  /\ ReadChunks(c) = f[Len(s)]
  /\ f[0] = <<>>
  /\ \A m \in 1..Len(s) :
       f[m] = IF Fits(c, s[m]) THEN Append(f[m - 1], c.at[s[m]]) ELSE f[m - 1]

LEMMA ReadChunksIs ==
  ASSUME NEW c, NEW sorted, sorted = Ascending(c.offsets), Len(sorted) \in Nat
  PROVE  \E f : Reads(c, sorted, f)
<1>1. PICK n \in Nat : n = Len(sorted)
  OBVIOUS
<1>2. PICK f : f = CHOOSE h : IsRead(c, sorted, n, h)
  OBVIOUS
<1>3. IsRead(c, sorted, n, f)
  BY <1>2, ReadExists
<1>4. ReadChunks(c) = f[n]
  BY <1>1, <1>2 DEF ReadChunks, IsRead
<1>5. \A m \in 0..n : f[m] = IF m = 0 THEN <<>>
                             ELSE IF Fits(c, sorted[m]) THEN Append(f[m - 1], c.at[sorted[m]])
                             ELSE f[m - 1]
  BY <1>3, Zenon DEF IsRead
<1>6. 0 \in 0..n /\ \A m \in 1..n : m \in 0..n /\ m # 0
  OBVIOUS
<1> QED BY <1>1, <1>4, <1>5, <1>6 DEF Reads

(* What is read are chunks of the container that fit.                      *)
LEMMA ReadChunksIn ==
  ASSUME NEW c, c.offsets \in Seq(Nat)
  PROVE  ReadChunks(c) \in Seq({c.at[o] : o \in {x \in Range(c.offsets) : Fits(c, x)}})
<1> DEFINE s == Ascending(c.offsets)
           S == {c.at[o] : o \in {x \in Range(c.offsets) : Fits(c, x)}}
<1>1. s \in Seq(Nat) /\ Len(s) \in Nat /\ \A m \in 1..Len(s) : s[m] \in Range(c.offsets)
  BY AscendingIn, LenProperties
<1>2. PICK sorted : sorted = s
  OBVIOUS
<1>3. PICK f : Reads(c, sorted, f)
  BY <1>1, <1>2, ReadChunksIs
<1> DEFINE T == {m \in Nat : m <= Len(sorted) => f[m] \in Seq(S)}
<1>4. 0 \in T
  BY <1>3, EmptySeq DEF Reads
<1>5. ASSUME NEW m \in Nat, m \in T PROVE m + 1 \in T
  <2>1. SUFFICES ASSUME m + 1 <= Len(sorted) PROVE f[m + 1] \in Seq(S)
    OBVIOUS
  <2>2. PICK k \in 1..Len(sorted) : k = m + 1 /\ k - 1 = m
    BY <1>1, <1>2, <2>1
  <2>3. f[m] \in Seq(S)
    BY <1>1, <1>2, <1>5, <2>1
  <2>4. CASE Fits(c, sorted[k])
    <3>1. c.at[sorted[k]] \in S
      BY <1>1, <1>2, <2>4
    <3>2. f[k] = Append(f[m], c.at[sorted[k]])
      BY <1>3, <2>2, <2>4 DEF Reads
    <3> HIDE DEF S
    <3> QED BY <2>2, <2>3, <3>1, <3>2, AppendProperties
  <2>5. CASE ~Fits(c, sorted[k])
    BY <1>3, <2>2, <2>3, <2>5 DEF Reads
  <2> QED BY <2>4, <2>5
<1>6. T = Nat
  <2>1. T \in SUBSET Nat
    OBVIOUS
  <2> HIDE DEF T
  <2> QED BY <2>1, <1>4, <1>5, SetInduction
<1>7. Len(sorted) \in T
  BY <1>1, <1>2, <1>6
<1> QED BY <1>3, <1>7 DEF Reads

(* A container in which every chunk fits is read completely, when its      *)
(* table is in order.                                                      *)
LEMMA ReadsAll ==
  ASSUME NEW c, c.offsets \in Seq(Nat), Increasing(c.offsets),
         \A k \in DOMAIN c.offsets : Fits(c, c.offsets[k])
  PROVE  ReadChunks(c) = [k \in 1..Len(c.offsets) |-> c.at[c.offsets[k]]]
<1>1. PICK s : s = c.offsets
  OBVIOUS
<1>2. s = Ascending(c.offsets)
  BY <1>1, AscendingSame
<1>3. Len(s) \in Nat /\ DOMAIN s = 1..Len(s)
  BY <1>1, LenProperties
<1>4. PICK f : Reads(c, s, f)
  BY <1>2, <1>3, ReadChunksIs
<1> DEFINE all(m) == [k \in 1..m |-> c.at[s[k]]]
           S == {c.at[s[k]] : k \in 1..Len(s)}
           T == {m \in Nat : m <= Len(s) => f[m] = all(m)}
<1>5. 0 \in T
  <2>1. all(0) = <<>>
    OBVIOUS
  <2> QED BY <1>4, <2>1 DEF Reads
<1>6. ASSUME NEW m \in Nat, m \in T PROVE m + 1 \in T
  <2>1. SUFFICES ASSUME m + 1 <= Len(s) PROVE f[m + 1] = all(m + 1)
    OBVIOUS
  <2>2. PICK k \in 1..Len(s) : k = m + 1 /\ k - 1 = m
    BY <1>3, <2>1
  <2>3. f[m] = all(m)
    BY <1>3, <1>6, <2>1
  <2>4. f[k] = Append(all(m), c.at[s[k]])
    <3>1. Fits(c, s[k])
      BY <1>1, <1>3
    <3>2. f[k] = Append(f[k - 1], c.at[s[k]])
      BY <1>4, <3>1 DEF Reads
    <3> QED BY <2>2, <2>3, <3>2
  <2>5. all(m) \in [1..m -> S] /\ c.at[s[k]] \in S
    BY <1>3, <2>1
  <2>6. all(m) \in Seq(S) /\ Len(all(m)) = m
    <3> HIDE DEF all, S
    <3> QED BY <2>5, SeqDef, LenProperties
  <2>7. \A i \in 1..m : all(m)[i] = c.at[s[i]]
    OBVIOUS
  <2> HIDE DEF all, S
  <2>8. /\ f[k] \in Seq(S) /\ Len(f[k]) = m + 1
        /\ \A i \in 1..m : f[k][i] = all(m)[i]
        /\ f[k][m + 1] = c.at[s[k]]
    BY <2>4, <2>5, <2>6, AppendProperties
  <2>9. f[k] \in [1..(m + 1) -> S]
    BY <2>8, LenProperties
  <2>10. ASSUME NEW i \in 1..(m + 1) PROVE f[k][i] = c.at[s[i]]
    <3>1. CASE i \in 1..m
      BY <2>7, <2>8, <3>1
    <3>2. CASE i = m + 1
      BY <2>2, <2>8, <3>2
    <3> QED BY <3>1, <3>2
  <2> QED BY <2>2, <2>9, <2>10 DEF all
<1>7. T = Nat
  <2>1. T \in SUBSET Nat
    OBVIOUS
  <2> HIDE DEF T
  <2> QED BY <2>1, <1>5, <1>6, SetInduction
<1>8. f[Len(s)] = all(Len(s))
  <2>1. Len(s) \in T
    BY <1>3, <1>7
  <2> HIDE DEF all
  <2> QED BY <1>3, <2>1
<1>9. ReadChunks(c) = all(Len(s))
  BY <1>4, <1>8 DEF Reads
<1> QED BY <1>1, <1>9

(* Sizes are rounded up to a multiple of four.                             *)
LEMMA Aligned ==
  ASSUME NEW n \in Nat
  PROVE  /\ AlignToDword(n) \in Nat /\ AlignToDword(n) % 4 = 0
         /\ n <= AlignToDword(n)
BY DEF AlignToDword

LEMMA SumOfAligned ==
  ASSUME NEW m \in Nat, NEW n \in Nat, m % 4 = 0, n % 4 = 0
  PROVE  (m + n) % 4 = 0
OBVIOUS

(* Chunks that can be written: at least one, each of a size.               *)
Writable(cs) ==
  /\ IsSequence(cs) /\ cs # <<>>
  /\ \A k \in DOMAIN cs : cs[k].size \in Nat

(* The function that Offsets is.                                           *)
IsOffsets(cs, header, g) ==
  g = [k \in DOMAIN cs |-> IF k = 1 THEN header
                           ELSE g[k - 1] + AlignToDword(ChunkHeader + cs[k - 1].size)]

LEMMA WritableDomain ==
  ASSUME NEW cs, Writable(cs)
  PROVE  /\ Len(cs) \in Nat \ {0} /\ DOMAIN cs = 1..Len(cs)
         /\ \A k \in DOMAIN cs : AlignToDword(ChunkHeader + cs[k].size) \in Nat
<1>1. PICK S : cs \in Seq(S)
  BY DEF Writable, IsSequence
<1>2. Len(cs) \in Nat /\ DOMAIN cs = 1..Len(cs) /\ Len(cs) # 0
  BY <1>1, LenProperties, EmptySeq DEF Writable
<1>3. \A k \in DOMAIN cs : ChunkHeader + cs[k].size \in Nat
  BY DEF Writable, ChunkHeader
<1> QED BY <1>2, <1>3, Aligned

LEMMA OffsetsExist ==
  ASSUME NEW cs, Writable(cs), NEW header \in Nat
  PROVE  \E g : IsOffsets(cs, header, g)
<1> DEFINE G == [m \in Nat |-> [x \in Nat |->
                   IF m \in DOMAIN cs THEN x + AlignToDword(ChunkHeader + cs[m].size) ELSE x]]
<1>1. PICK n \in Nat : n = Len(cs) /\ DOMAIN cs = 1..n
  BY WritableDomain
<1>2. G \in [Nat -> [Nat -> Nat]]
  BY WritableDomain
<1>3. \A m \in DOMAIN cs : \A x \in Nat :
        G[m][x] = x + AlignToDword(ChunkHeader + cs[m].size)
  BY <1>1
<1> HIDE DEF G
<1>4. PICK f : Recurses(Nat, header, G, n, f)
  BY <1>2, RecursionExists
<1>4a. f \in [0..n -> Nat] /\ f[0] = header /\ \A m \in 1..n : f[m] = G[m][f[m - 1]]
  BY <1>4 DEF Recurses
<1>5. PICK g : g = [k \in DOMAIN cs |-> f[k - 1]]
  OBVIOUS
<1>6. ASSUME NEW k \in DOMAIN cs
      PROVE  g[k] = IF k = 1 THEN header
                    ELSE g[k - 1] + AlignToDword(ChunkHeader + cs[k - 1].size)
  <2>1. CASE k = 1
    BY <1>4a, <1>5, <2>1
  <2>2. CASE k # 1
    <3>1. PICK j \in DOMAIN cs : j = k - 1
      BY <1>1, <2>2
    <3>2. g[k] = f[j] /\ g[j] = f[j - 1]
      BY <1>5, <3>1
    <3>3. f[j - 1] \in Nat /\ f[j] = G[j][f[j - 1]]
      BY <1>1, <1>4a
    <3>4. f[j] = f[j - 1] + AlignToDword(ChunkHeader + cs[j].size)
      BY <1>3, <3>3
    <3> QED BY <2>2, <3>1, <3>2, <3>4
  <2> QED BY <2>1, <2>2
<1>7. g = [k \in DOMAIN cs |-> g[k]]
  BY <1>5
<1>8. IsOffsets(cs, header, g)
  BY <1>6, <1>7, Zenon DEF IsOffsets
<1> QED BY <1>8

(* The offsets of the written chunks: each lies behind the one before it,  *)
(* on a four-byte boundary.                                                *)
LEMMA OffsetsAre ==
  ASSUME NEW cs, Writable(cs), NEW header \in Nat, header % 4 = 0
  PROVE  LET o == Offsets(cs, header)
         IN /\ o \in [1..Len(cs) -> Nat]
            /\ \A k \in DOMAIN cs : o[k] % 4 = 0 /\ o[k] >= header
            /\ \A j, k \in DOMAIN cs : j < k => o[j] + ChunkHeader + cs[j].size <= o[k]
<1>1. PICK n \in Nat : n = Len(cs) /\ DOMAIN cs = 1..n /\ n # 0
  BY WritableDomain
<1>2. PICK o : o = CHOOSE g : IsOffsets(cs, header, g)
  OBVIOUS
<1>3. IsOffsets(cs, header, o)
  BY <1>2, OffsetsExist
<1>4. Offsets(cs, header) = o
  BY <1>2 DEF Offsets, IsOffsets
<1>5. \A k \in DOMAIN cs : o[k] = IF k = 1 THEN header
                                  ELSE o[k - 1] + AlignToDword(ChunkHeader + cs[k - 1].size)
  BY <1>3, Zenon DEF IsOffsets
<1> DEFINE good(k) == /\ o[k] \in Nat /\ o[k] % 4 = 0 /\ o[k] >= header
                      /\ \A j \in DOMAIN cs : j < k => /\ o[j] \in Nat
                                                    /\ o[j] + ChunkHeader + cs[j].size <= o[k]
           T == {m \in Nat : m \in DOMAIN cs => good(m)}
<1>6. 0 \in T
  BY <1>1
<1>7. ASSUME NEW m \in Nat, m \in T PROVE m + 1 \in T
  <2>1. SUFFICES ASSUME m + 1 \in DOMAIN cs PROVE good(m + 1)
    OBVIOUS
  <2>2. CASE m = 0
    <3>1. o[1] = header /\ m + 1 = 1
      BY <1>5, <2>1, <2>2
    <3> QED BY <1>1, <3>1
  <2>3. CASE m # 0
    <3>1. m \in DOMAIN cs /\ good(m)
      BY <1>1, <1>7, <2>1, <2>3
    <3>2. PICK k \in DOMAIN cs : k = m + 1 /\ k - 1 = m /\ k # 1
      BY <2>1, <2>3
    <3>3. PICK a \in Nat : a = ChunkHeader + cs[m].size /\ a >= 8
      BY <3>1 DEF Writable, ChunkHeader
    <3>4. PICK b \in Nat : b = AlignToDword(a) /\ b % 4 = 0 /\ a <= b
      BY Aligned
    <3>5. o[k] = o[m] + b
      BY <1>5, <3>2, <3>3, <3>4
    <3>6. o[k] \in Nat /\ o[k] % 4 = 0 /\ o[k] >= header
      BY <3>1, <3>4, <3>5, SumOfAligned
    <3>7. ASSUME NEW j \in DOMAIN cs, j < k
          PROVE  o[j] \in Nat /\ o[j] + ChunkHeader + cs[j].size <= o[k]
      <4>1. CASE j = m
        <5>1. o[m] + ChunkHeader + cs[m].size = o[m] + a
          <6>1. cs[m].size \in Nat /\ o[m] \in Nat
            BY <3>1 DEF Writable
          <6> QED BY <3>3, <6>1 DEF ChunkHeader
        <5> QED BY <3>1, <3>4, <3>5, <4>1, <5>1
      <4>2. CASE j < m
        <5>1. o[j] \in Nat /\ o[j] + ChunkHeader + cs[j].size <= o[m]
          BY <3>1, <4>2
        <5>2. PICK e \in Int : e = o[j] + ChunkHeader + cs[j].size
          BY <5>1 DEF Writable, ChunkHeader
        <5> QED BY <3>1, <3>4, <3>5, <5>1, <5>2
      <4>3. j = m \/ j < m
        BY <1>1, <3>2, <3>7
      <4> QED BY <4>1, <4>2, <4>3
    <3> QED BY <3>2, <3>6, <3>7
  <2> QED BY <2>2, <2>3
<1>8. T = Nat
  <2>1. T \in SUBSET Nat
    OBVIOUS
  <2> HIDE DEF T
  <2> QED BY <2>1, <1>6, <1>7, SetInduction
<1>9. \A k \in DOMAIN cs : good(k)
  BY <1>1, <1>8
<1>10. o = [k \in DOMAIN cs |-> o[k]]
  BY <1>3, Zenon DEF IsOffsets
<1>11. o \in [1..Len(cs) -> Nat]
  BY <1>1, <1>9, <1>10
<1> QED BY <1>4, <1>9, <1>11

(* What is said of a written container c with chunks cs.                   *)
LaidOut(c, cs) ==
  /\ c.size \in Nat /\ c.size = c.total /\ c.size >= 32
  /\ DOMAIN c.offsets = DOMAIN cs /\ Len(c.offsets) = Len(cs)
  /\ \A k \in DOMAIN cs :
       /\ c.offsets[k] \in Nat /\ c.offsets[k] % 4 = 0
       /\ c.offsets[k] >= HeaderSize + 4 * Len(cs)
       /\ c.offsets[k] + ChunkHeader + cs[k].size <= c.total
  /\ \A j, k \in DOMAIN cs :
       j < k => c.offsets[j] + ChunkHeader + cs[j].size <= c.offsets[k]
  /\ ReadChunks(c) = cs

LEMMA LayoutIs ==
  ASSUME NEW cs, Writable(cs)
  PROVE  LaidOut(Layout(cs), cs)
<1>1. PICK n \in Nat : n = Len(cs) /\ DOMAIN cs = 1..n /\ n # 0
  BY WritableDomain
<1>2. PICK header \in Nat : header = HeaderSize + 4 * Len(cs) /\ header % 4 = 0 /\ header >= 32
  BY <1>1 DEF HeaderSize
<1>3. PICK o : o = Offsets(cs, header)
  OBVIOUS
<1>4. /\ o \in [1..n -> Nat]
      /\ \A k \in DOMAIN cs : o[k] % 4 = 0 /\ o[k] >= header
      /\ \A j, k \in DOMAIN cs : j < k => o[j] + ChunkHeader + cs[j].size <= o[k]
  BY <1>1, <1>2, <1>3, OffsetsAre
<1>5. \A k \in DOMAIN cs : cs[k].size \in Nat /\ o[k] \in Nat
  BY <1>1, <1>4 DEF Writable
<1>6. PICK last \in Nat : last = AlignToDword(ChunkHeader + cs[n].size)
                          /\ ChunkHeader + cs[n].size <= last
  <2>1. n \in DOMAIN cs
    BY <1>1
  <2>2. ChunkHeader + cs[n].size \in Nat
    BY <1>5, <2>1 DEF ChunkHeader
  <2> QED BY <2>2, Aligned
<1>7. PICK end \in Nat : end = o[n] + last
  BY <1>1, <1>5
<1>8. PICK size \in Nat : size = AlignToDword(end) /\ end <= size
  BY Aligned
<1>9. PICK at : at = [x \in {o[k] : k \in DOMAIN cs} |-> cs[CHOOSE k \in DOMAIN cs : o[k] = x]]
  OBVIOUS
<1>10. Layout(cs) = [signature |-> TRUE, size |-> size, total |-> size, offsets |-> o, at |-> at]
  BY <1>1, <1>2, <1>3, <1>6, <1>7, <1>8, <1>9 DEF Layout, Writable
<1>11. PICK c : c = Layout(cs)
  OBVIOUS
<1>12. c.size = size /\ c.total = size /\ c.offsets = o /\ c.at = at
  BY <1>10, <1>11
<1>13. DOMAIN o = DOMAIN cs /\ o \in Seq(Nat) /\ Len(o) = n
  BY <1>1, <1>4, SeqDef, LenProperties
<1>14. ASSUME NEW j \in DOMAIN cs, NEW k \in DOMAIN cs, j < k PROVE o[j] < o[k]
  <2>1. o[j] + ChunkHeader + cs[j].size <= o[k]
    BY <1>4, <1>14
  <2> QED BY <1>5, <2>1 DEF ChunkHeader
<1>15. ASSUME NEW k \in DOMAIN cs PROVE at[o[k]] = cs[k]
  <2>1. PICK i : i = CHOOSE e \in DOMAIN cs : o[e] = o[k]
    OBVIOUS
  <2>2. i \in DOMAIN cs /\ o[i] = o[k]
    BY <2>1
  <2>3. i = k
    <3>1. i < k \/ k < i \/ i = k
      BY <1>1, <2>2
    <3> QED BY <1>5, <1>14, <2>2, <3>1
  <2>4. at[o[k]] = cs[CHOOSE e \in DOMAIN cs : o[e] = o[k]]
    BY <1>9
  <2> QED BY <2>1, <2>3, <2>4
<1>16. ASSUME NEW k \in DOMAIN cs PROVE o[k] + ChunkHeader + cs[k].size <= size
  <2>1. n \in DOMAIN cs /\ k <= n
    BY <1>1
  <2>2. o[n] + ChunkHeader + cs[n].size <= size
    BY <1>5, <1>6, <1>7, <1>8, <2>1 DEF ChunkHeader
  <2>3. CASE k = n
    BY <2>2, <2>3
  <2>4. CASE k < n
    <3>1. o[k] + ChunkHeader + cs[k].size <= o[n]
      BY <1>4, <2>1, <2>4
    <3> QED BY <1>5, <2>1, <2>2, <3>1 DEF ChunkHeader
  <2> QED BY <1>1, <2>1, <2>3, <2>4
<1>17. size >= 32
  <2>1. n \in DOMAIN cs
    BY <1>1
  <2>2. o[n] \in Nat /\ o[n] >= header
    BY <1>4, <1>5, <2>1
  <2> QED BY <1>2, <1>7, <1>8, <2>2
<1>18. ReadChunks(c) = cs
  <2>1. c.offsets \in Seq(Nat) /\ Increasing(c.offsets)
    BY <1>12, <1>13, <1>14 DEF Increasing
  <2>2. \A k \in DOMAIN c.offsets : Fits(c, c.offsets[k])
    <3> SUFFICES ASSUME NEW k \in DOMAIN cs PROVE Fits(c, o[k])
      BY <1>12, <1>13
    <3>1. c.at[o[k]] = cs[k]
      BY <1>12, <1>15
    <3>2. o[k] + ChunkHeader <= size
      BY <1>5, <1>16 DEF ChunkHeader
    <3> QED BY <1>12, <1>16, <3>1, <3>2 DEF Fits
  <2>3. ReadChunks(c) = [k \in 1..Len(c.offsets) |-> c.at[c.offsets[k]]]
    BY <2>1, <2>2, ReadsAll
  <2>4. ReadChunks(c) = [k \in DOMAIN cs |-> at[o[k]]]
    BY <1>1, <1>12, <1>13, <2>3
  <2>5. ReadChunks(c) = [k \in DOMAIN cs |-> cs[k]]
    BY <1>15, <2>4
  <2>6. cs = [k \in DOMAIN cs |-> cs[k]]
    BY SeqDef DEF Writable, IsSequence
  <2> QED BY <2>5, <2>6
<1> QED BY <1>1, <1>2, <1>4, <1>5, <1>11, <1>12, <1>13, <1>16, <1>17, <1>18 DEF LaidOut

-----------------------------------------------------------------------------
(* The checksum.                                                           *)

Kinds == {"data", "a", "b", "pad", "zero"}
Segments == Seq(Kinds \X Nat)

SizeOf(s, kinds, k) == IF s[k][1] \in kinds THEN s[k][2] ELSE 0

IsFed(s, kinds, n, f) ==
  f = [k \in 0..n |-> IF k = 0 THEN 0 ELSE f[k - 1] + SizeOf(s, kinds, k)]

LEMMA FedExists ==
  ASSUME NEW s \in Segments, NEW kinds, NEW n \in Nat, n <= Len(s)
  PROVE  \E f : IsFed(s, kinds, n, f)
<1> DEFINE G == [m \in Nat |-> [x \in Nat |-> IF m \in 1..n THEN x + SizeOf(s, kinds, m) ELSE x]]
<1>1. \A m \in 1..n : SizeOf(s, kinds, m) \in Nat
  <2> SUFFICES ASSUME NEW m \in 1..n PROVE SizeOf(s, kinds, m) \in Nat
    OBVIOUS
  <2>1. s \in Seq(Kinds \X Nat) /\ m \in 1..Len(s)
    BY LenProperties DEF Segments
  <2>2. s[m] \in Kinds \X Nat
    BY <2>1, ElementOfSeq
  <2> QED BY <2>2 DEF SizeOf
<1>2. G \in [Nat -> [Nat -> Nat]]
  BY <1>1
<1>3. \A m \in 1..n : \A x \in Nat : G[m][x] = x + SizeOf(s, kinds, m)
  OBVIOUS
<1> HIDE DEF G
<1>4. PICK f : Recurses(Nat, 0, G, n, f)
  BY <1>2, RecursionExists
<1>5. f \in [0..n -> Nat] /\ f[0] = 0 /\ \A m \in 1..n : f[m] = G[m][f[m - 1]]
  BY <1>4 DEF Recurses
<1>6. ASSUME NEW k \in 0..n
      PROVE  f[k] = IF k = 0 THEN 0 ELSE f[k - 1] + SizeOf(s, kinds, k)
  <2>1. CASE k = 0
    BY <1>5, <2>1
  <2>2. CASE k # 0
    <3>1. k \in 1..n /\ f[k - 1] \in Nat
      BY <1>5, <2>2
    <3> QED BY <1>3, <1>5, <2>2, <3>1
  <2> QED BY <2>1, <2>2
<1>7. f = [k \in 0..n |-> f[k]]
  BY <1>5
<1>8. IsFed(s, kinds, n, f)
  BY <1>6, <1>7, Zenon DEF IsFed
<1> QED BY <1>8

(* The bytes of a few segments, added up.                                  *)
LEMMA BytesAre ==
  ASSUME NEW s \in Segments, NEW kinds
  PROVE  /\ Len(s) = 3 => Bytes(s, kinds) = SizeOf(s, kinds, 1) + SizeOf(s, kinds, 2)
                                            + SizeOf(s, kinds, 3)
         /\ Len(s) = 4 => Bytes(s, kinds) = SizeOf(s, kinds, 1) + SizeOf(s, kinds, 2)
                                            + SizeOf(s, kinds, 3) + SizeOf(s, kinds, 4)
         /\ Len(s) = 5 => Bytes(s, kinds) = SizeOf(s, kinds, 1) + SizeOf(s, kinds, 2)
                                            + SizeOf(s, kinds, 3) + SizeOf(s, kinds, 4)
                                            + SizeOf(s, kinds, 5)
         /\ Len(s) = 6 => Bytes(s, kinds) = SizeOf(s, kinds, 1) + SizeOf(s, kinds, 2)
                                            + SizeOf(s, kinds, 3) + SizeOf(s, kinds, 4)
                                            + SizeOf(s, kinds, 5) + SizeOf(s, kinds, 6)
<1>1. PICK n \in Nat : n = Len(s)
  BY LenProperties DEF Segments
<1>2. PICK f : f = CHOOSE h : IsFed(s, kinds, n, h)
  OBVIOUS
<1>3. IsFed(s, kinds, n, f)
  BY <1>1, <1>2, FedExists
<1>4. Bytes(s, kinds) = f[n]
  BY <1>1, <1>2 DEF Bytes, IsFed, SizeOf
<1>5. \A k \in 0..n : f[k] = IF k = 0 THEN 0 ELSE f[k - 1] + SizeOf(s, kinds, k)
  BY <1>3, Zenon DEF IsFed
<1>6. \A k \in 1..n : SizeOf(s, kinds, k) \in Nat
  <2> SUFFICES ASSUME NEW k \in 1..n PROVE SizeOf(s, kinds, k) \in Nat
    OBVIOUS
  <2>1. s[k] \in Kinds \X Nat
    BY <1>1, ElementOfSeq DEF Segments
  <2> QED BY <2>1 DEF SizeOf
<1>7. CASE n = 3
  <2>1. f[0] = 0 /\ f[1] = SizeOf(s, kinds, 1) /\ f[2] = f[1] + SizeOf(s, kinds, 2)
        /\ f[3] = f[2] + SizeOf(s, kinds, 3)
    BY <1>5, <1>6, <1>7
  <2> QED BY <1>1, <1>4, <1>6, <1>7, <2>1
<1>8. CASE n = 4
  <2>1. f[0] = 0 /\ f[1] = SizeOf(s, kinds, 1) /\ f[2] = f[1] + SizeOf(s, kinds, 2)
        /\ f[3] = f[2] + SizeOf(s, kinds, 3) /\ f[4] = f[3] + SizeOf(s, kinds, 4)
    BY <1>5, <1>6, <1>8
  <2> QED BY <1>1, <1>4, <1>6, <1>8, <2>1
<1>9. CASE n = 5
  <2>1. f[0] = 0 /\ f[1] = SizeOf(s, kinds, 1) /\ f[2] = f[1] + SizeOf(s, kinds, 2)
        /\ f[3] = f[2] + SizeOf(s, kinds, 3) /\ f[4] = f[3] + SizeOf(s, kinds, 4)
        /\ f[5] = f[4] + SizeOf(s, kinds, 5)
    BY <1>5, <1>6, <1>9
  <2> QED BY <1>1, <1>4, <1>6, <1>9, <2>1
<1>10. CASE n = 6
  <2>1. f[0] = 0 /\ f[1] = SizeOf(s, kinds, 1) /\ f[2] = f[1] + SizeOf(s, kinds, 2)
        /\ f[3] = f[2] + SizeOf(s, kinds, 3) /\ f[4] = f[3] + SizeOf(s, kinds, 4)
        /\ f[5] = f[4] + SizeOf(s, kinds, 5) /\ f[6] = f[5] + SizeOf(s, kinds, 6)
    BY <1>5, <1>6, <1>10
  <2> QED BY <1>1, <1>4, <1>6, <1>10, <2>1
<1> QED BY <1>1, <1>7, <1>8, <1>9, <1>10

(* A sequence with an element in front of it.                              *)
Prefixed(S, a, t, u) ==
  /\ u \in Seq(S) /\ Len(u) = Len(t) + 1 /\ u[1] = a
  /\ \A i \in 1..Len(t) : u[i + 1] = t[i]

LEMMA PrefixedIs ==
  ASSUME NEW S, NEW a \in S, NEW t \in Seq(S), NEW u, u = <<a>> \o t
  PROVE  Prefixed(S, a, t, u)
<1>1. <<a>> \in Seq(S) /\ Len(<<a>>) = 1 /\ <<a>>[1] = a
  OBVIOUS
<1>2. Len(t) \in Nat
  BY LenProperties
<1>3. /\ <<a>> \o t \in Seq(S) /\ Len(<<a>> \o t) = 1 + Len(t)
      /\ \A i \in 1..(1 + Len(t)) : (<<a>> \o t)[i] = IF i <= 1 THEN <<a>>[i] ELSE t[i - 1]
  BY <1>1, ConcatProperties
<1>4. ASSUME NEW i \in 1..Len(t) PROVE (<<a>> \o t)[i + 1] = t[i]
  <2>1. PICK k \in 1..(1 + Len(t)) : k = i + 1 /\ ~(k <= 1) /\ k - 1 = i
    BY <1>2
  <2> QED BY <1>3, <2>1
<1> QED BY <1>1, <1>2, <1>3, <1>4 DEF Prefixed

Data(m) == <<"data", m>>

(* What is fed behind the whole blocks, for a remainder of r.              *)
LastBlocks(r) ==
  IF r >= 56
    THEN (IF r = 0 THEN <<>> ELSE <<Data(r)>>)
         \o <<<<"pad", 64 - r>>, <<"a", 4>>, <<"zero", 56>>, <<"b", 4>>>>
    ELSE <<<<"a", 4>>>> \o (IF r = 0 THEN <<>> ELSE <<Data(r)>>)
         \o <<<<"pad", 56 - r>>, <<"b", 4>>>>

LEMMA HashInputIs ==
  ASSUME NEW q \in Nat, NEW r \in 0..63, NEW n \in Nat, n = 64 * q + r
  PROVE  HashInput(n) = (IF q = 0 THEN <<>> ELSE <<Data(64 * q)>>) \o LastBlocks(r)
<1>1. n % 64 = r
  OBVIOUS
<1>2. n - r = 64 * q /\ (n = r <=> q = 0)
  OBVIOUS
<1>3. HashInput(n) =
        (IF q = 0 THEN <<>> ELSE <<Data(64 * q)>>)
        \o (IF r >= 56
              THEN (IF r = 0 THEN <<>> ELSE <<Data(r)>>)
                   \o <<<<"pad", 64 - r>>, <<"a", 4>>, <<"zero", 56>>, <<"b", 4>>>>
              ELSE <<<<"a", 4>>>> \o (IF r = 0 THEN <<>> ELSE <<Data(r)>>)
                   \o <<<<"pad", 56 - r>>, <<"b", 4>>>>)
  <2>1. 64 - r - 8 = 56 - r /\ 64 - 8 = 56
    OBVIOUS
  <2> QED BY <1>1, <1>2, <2>1 DEF HashInput, HashBlock, Data
<1> QED BY <1>3 DEF LastBlocks

LEMMA SegmentsAre ==
  ASSUME NEW m \in Nat
  PROVE  /\ Data(m) \in Kinds \X Nat /\ <<"pad", m>> \in Kinds \X Nat
         /\ <<"a", m>> \in Kinds \X Nat /\ <<"b", m>> \in Kinds \X Nat
         /\ <<"zero", m>> \in Kinds \X Nat
BY DEF Data, Kinds

LEMMA LastBlocksAre ==
  ASSUME NEW r \in 0..63
  PROVE  LET m == LastBlocks(r)
         IN /\ m \in Segments
            /\ r >= 56 => /\ Len(m) = 5 /\ m[1] = Data(r) /\ m[2] = <<"pad", 64 - r>>
                          /\ m[3] = <<"a", 4>> /\ m[4] = <<"zero", 56>> /\ m[5] = <<"b", 4>>
            /\ r = 0 => /\ Len(m) = 3 /\ m[1] = <<"a", 4>> /\ m[2] = <<"pad", 56 - r>>
                        /\ m[3] = <<"b", 4>>
            /\ r \in 1..55 => /\ Len(m) = 4 /\ m[1] = <<"a", 4>> /\ m[2] = Data(r)
                              /\ m[3] = <<"pad", 56 - r>> /\ m[4] = <<"b", 4>>
<1>1. PICK S : S = Kinds \X Nat
  OBVIOUS
<1>2. PICK a : a = <<"a", 4>>
  OBVIOUS
<1>3. PICK b : b = <<"b", 4>>
  OBVIOUS
<1>4. PICK z : z = <<"zero", 56>>
  OBVIOUS
<1>5. PICK d : d = Data(r)
  OBVIOUS
<1>6. a \in S /\ b \in S /\ z \in S /\ d \in S
  <2>1. 4 \in Nat /\ 56 \in Nat /\ r \in Nat
    OBVIOUS
  <2> QED BY <1>1, <1>2, <1>3, <1>4, <1>5, <2>1, SegmentsAre
<1>7. CASE r >= 56
  <2>1. PICK p : p = <<"pad", 64 - r>>
    OBVIOUS
  <2>2. p \in S
    <3>1. 64 - r \in Nat
      OBVIOUS
    <3> QED BY <1>1, <2>1, <3>1, SegmentsAre
  <2>3. PICK t : t = <<p, a, z, b>>
    OBVIOUS
  <2>4. t \in Seq(S) /\ Len(t) = 4 /\ t[1] = p /\ t[2] = a /\ t[3] = z /\ t[4] = b
    BY <1>6, <2>2, <2>3
  <2>5. LastBlocks(r) = <<d>> \o t
    BY <1>2, <1>3, <1>4, <1>5, <1>7, <2>1, <2>3 DEF LastBlocks
  <2>6. PICK m : m = LastBlocks(r)
    OBVIOUS
  <2>7. m \in Seq(S) /\ Len(m) = 5 /\ m[1] = d /\ \A i \in 1..4 : m[i + 1] = t[i]
    <3>1. Prefixed(S, d, t, m)
      BY <1>6, <2>4, <2>5, <2>6, PrefixedIs
    <3> QED BY <2>4, <3>1 DEF Prefixed
  <2>8. m[2] = p /\ m[3] = a /\ m[4] = z /\ m[5] = b
    BY <2>4, <2>7
  <2> QED BY <1>1, <1>2, <1>3, <1>4, <1>5, <1>7, <2>1, <2>6, <2>7, <2>8 DEF Segments
<1>8. CASE r < 56
  <2>1. PICK p : p = <<"pad", 56 - r>>
    OBVIOUS
  <2>2. p \in S
    <3>1. 56 - r \in Nat
      BY <1>8
    <3> QED BY <1>1, <2>1, <3>1, SegmentsAre
  <2>3. PICK t : t = <<p, b>>
    OBVIOUS
  <2>4. t \in Seq(S) /\ Len(t) = 2 /\ t[1] = p /\ t[2] = b
    BY <1>6, <2>2, <2>3
  <2>5. PICK m : m = LastBlocks(r)
    OBVIOUS
  <2>6. CASE r = 0
    <3>1. m = <<a>> \o <<>> \o t
      BY <1>2, <1>3, <1>8, <2>1, <2>3, <2>5, <2>6 DEF LastBlocks
    <3>2. m = <<a>> \o t
      BY <1>6, <3>1, ConcatEmptySeq
    <3>3. m \in Seq(S) /\ Len(m) = 3 /\ m[1] = a /\ \A i \in 1..2 : m[i + 1] = t[i]
      <4>1. Prefixed(S, a, t, m)
        BY <1>6, <2>4, <3>2, PrefixedIs
      <4> QED BY <2>4, <4>1 DEF Prefixed
    <3>4. m[2] = p /\ m[3] = b
      BY <2>4, <3>3
    <3> QED BY <1>1, <1>2, <1>3, <2>1, <2>5, <2>6, <3>3, <3>4 DEF Segments
  <2>7. CASE r # 0
    <3>1. m = (<<a>> \o <<d>>) \o t
      BY <1>2, <1>3, <1>5, <1>8, <2>1, <2>3, <2>5, <2>7 DEF LastBlocks
    <3>2. <<a>> \in Seq(S) /\ <<d>> \in Seq(S)
      BY <1>6
    <3>3. m = <<a>> \o (<<d>> \o t)
      BY <2>4, <3>1, <3>2, ConcatAssociative
    <3>4. PICK u : u = <<d>> \o t
      OBVIOUS
    <3>5. u \in Seq(S) /\ Len(u) = 3 /\ u[1] = d /\ \A i \in 1..2 : u[i + 1] = t[i]
      <4>1. Prefixed(S, d, t, u)
        BY <1>6, <2>4, <3>4, PrefixedIs
      <4> QED BY <2>4, <4>1 DEF Prefixed
    <3>6. u[2] = p /\ u[3] = b
      BY <2>4, <3>5
    <3>7. m \in Seq(S) /\ Len(m) = 4 /\ m[1] = a /\ \A i \in 1..3 : m[i + 1] = u[i]
      <4>1. Prefixed(S, a, u, m)
        BY <1>6, <3>3, <3>4, <3>5, PrefixedIs
      <4> QED BY <3>5, <4>1 DEF Prefixed
    <3>8. m[2] = d /\ m[3] = p /\ m[4] = b
      BY <3>5, <3>6, <3>7
    <3> QED BY <1>1, <1>2, <1>3, <1>5, <1>8, <2>1, <2>5, <2>7, <3>7, <3>8 DEF Segments
  <2> QED BY <2>6, <2>7
<1> QED BY <1>7, <1>8

LEMMA QuotientRemainder ==
  ASSUME NEW n \in Nat
  PROVE  \E q \in Nat, r \in 0..63 : n = 64 * q + r
<1>1. n \div 64 \in Nat /\ n % 64 \in 0..63 /\ n = (64 * (n \div 64)) + (n % 64)
  OBVIOUS
<1> QED BY <1>1

LEMMA WholeBlocks ==
  ASSUME NEW q \in Nat
  PROVE  (64 * q) % 64 = 0
OBVIOUS

(* What is fed for a size is as long as it says, in the order of its bytes.*)
Takes(fed, n) ==
  /\ Bytes(fed, {"data"}) = n
  /\ Bytes(fed, Kinds) % 64 = 0
  /\ Bytes(fed, {"pad"}) >= 1
  /\ \A k \in DOMAIN fed : fed[k][2] > 0

LEMMA FedSize ==
  ASSUME NEW s, NEW k, NEW what \in Kinds, NEW m \in Nat, s[k] = <<what, m>>
  PROVE  /\ SizeOf(s, Kinds, k) = m /\ s[k][2] = m
         /\ what = "data" => SizeOf(s, {"data"}, k) = m /\ SizeOf(s, {"pad"}, k) = 0
         /\ what = "pad" => SizeOf(s, {"pad"}, k) = m /\ SizeOf(s, {"data"}, k) = 0
         /\ what \notin {"data", "pad"} => SizeOf(s, {"data"}, k) = 0 /\ SizeOf(s, {"pad"}, k) = 0
BY DEF SizeOf

(* The six ways in which the blocks end: the remainder leaves room for the *)
(* two length words, or does not, or is zero, behind no or some whole      *)
(* blocks.                                                                 *)
LEMMA TakesLong ==
  ASSUME NEW q \in Nat, NEW r \in 56..63, NEW n \in Nat, n = 64 * q + r,
         NEW s \in Segments, Len(s) = 5, q = 0,
         s[1] = <<"data", r>>, s[2] = <<"pad", 64 - r>>, s[3] = <<"a", 4>>,
         s[4] = <<"zero", 56>>, s[5] = <<"b", 4>>
  PROVE  Takes(s, n)
<1>1. 64 - r \in Nat \ {0} /\ r \in Nat \ {0}
  OBVIOUS
<1>2. {"data", "pad", "a", "zero", "b"} \subseteq Kinds
  BY DEF Kinds
<1>3. /\ SizeOf(s, {"data"}, 1) = r /\ SizeOf(s, {"data"}, 2) = 0 /\ SizeOf(s, {"data"}, 3) = 0
      /\ SizeOf(s, {"data"}, 4) = 0 /\ SizeOf(s, {"data"}, 5) = 0
  BY <1>1, <1>2, FedSize
<1>4. /\ SizeOf(s, Kinds, 1) = r /\ SizeOf(s, Kinds, 2) = 64 - r /\ SizeOf(s, Kinds, 3) = 4
      /\ SizeOf(s, Kinds, 4) = 56 /\ SizeOf(s, Kinds, 5) = 4
  BY <1>1, <1>2, FedSize
<1>5. /\ SizeOf(s, {"pad"}, 1) = 0 /\ SizeOf(s, {"pad"}, 2) = 64 - r /\ SizeOf(s, {"pad"}, 3) = 0
      /\ SizeOf(s, {"pad"}, 4) = 0 /\ SizeOf(s, {"pad"}, 5) = 0
  BY <1>1, <1>2, FedSize
<1>6. Bytes(s, {"data"}) = n
  BY <1>3, BytesAre
<1>7. Bytes(s, Kinds) = 64 * (q + 2)
  BY <1>4, BytesAre
<1>8. Bytes(s, {"pad"}) >= 1
  BY <1>1, <1>5, BytesAre
<1>9. \A k \in DOMAIN s : s[k][2] > 0
  <2>1. DOMAIN s = 1..5
    BY LenProperties DEF Segments
  <2> QED BY <1>1, <2>1
<1> QED BY <1>6, <1>7, <1>8, <1>9, WholeBlocks DEF Takes

LEMMA TakesNone ==
  ASSUME NEW q \in Nat, NEW r \in 0..0, NEW n \in Nat, n = 64 * q + r,
         NEW s \in Segments, Len(s) = 3, q = 0,
         s[1] = <<"a", 4>>, s[2] = <<"pad", 56 - r>>, s[3] = <<"b", 4>>
  PROVE  Takes(s, n)
<1>1. 56 - r \in Nat \ {0}
  OBVIOUS
<1>2. {"a", "pad", "b"} \subseteq Kinds
  BY DEF Kinds
<1>3. /\ SizeOf(s, {"data"}, 1) = 0 /\ SizeOf(s, {"data"}, 2) = 0 /\ SizeOf(s, {"data"}, 3) = 0
  BY <1>1, <1>2, FedSize
<1>4. /\ SizeOf(s, Kinds, 1) = 4 /\ SizeOf(s, Kinds, 2) = 56 - r /\ SizeOf(s, Kinds, 3) = 4
  BY <1>1, <1>2, FedSize
<1>5. /\ SizeOf(s, {"pad"}, 1) = 0 /\ SizeOf(s, {"pad"}, 2) = 56 - r /\ SizeOf(s, {"pad"}, 3) = 0
  BY <1>1, <1>2, FedSize
<1>6. Bytes(s, {"data"}) = n
  BY <1>3, BytesAre
<1>7. Bytes(s, Kinds) = 64 * (q + 1)
  BY <1>4, BytesAre
<1>8. Bytes(s, {"pad"}) >= 1
  BY <1>1, <1>5, BytesAre
<1>9. \A k \in DOMAIN s : s[k][2] > 0
  <2>1. DOMAIN s = 1..3
    BY LenProperties DEF Segments
  <2> QED BY <1>1, <2>1
<1> QED BY <1>6, <1>7, <1>8, <1>9, WholeBlocks DEF Takes

LEMMA TakesShort ==
  ASSUME NEW q \in Nat, NEW r \in 1..55, NEW n \in Nat, n = 64 * q + r,
         NEW s \in Segments, Len(s) = 4, q = 0,
         s[1] = <<"a", 4>>, s[2] = <<"data", r>>, s[3] = <<"pad", 56 - r>>,
         s[4] = <<"b", 4>>
  PROVE  Takes(s, n)
<1>1. 56 - r \in Nat \ {0} /\ r \in Nat \ {0}
  OBVIOUS
<1>2. {"a", "data", "pad", "b"} \subseteq Kinds
  BY DEF Kinds
<1>3. /\ SizeOf(s, {"data"}, 1) = 0 /\ SizeOf(s, {"data"}, 2) = r /\ SizeOf(s, {"data"}, 3) = 0
      /\ SizeOf(s, {"data"}, 4) = 0
  BY <1>1, <1>2, FedSize
<1>4. /\ SizeOf(s, Kinds, 1) = 4 /\ SizeOf(s, Kinds, 2) = r /\ SizeOf(s, Kinds, 3) = 56 - r
      /\ SizeOf(s, Kinds, 4) = 4
  BY <1>1, <1>2, FedSize
<1>5. /\ SizeOf(s, {"pad"}, 1) = 0 /\ SizeOf(s, {"pad"}, 2) = 0 /\ SizeOf(s, {"pad"}, 3) = 56 - r
      /\ SizeOf(s, {"pad"}, 4) = 0
  BY <1>1, <1>2, FedSize
<1>6. Bytes(s, {"data"}) = n
  BY <1>3, BytesAre
<1>7. Bytes(s, Kinds) = 64 * (q + 1)
  BY <1>4, BytesAre
<1>8. Bytes(s, {"pad"}) >= 1
  BY <1>1, <1>5, BytesAre
<1>9. \A k \in DOMAIN s : s[k][2] > 0
  <2>1. DOMAIN s = 1..4
    BY LenProperties DEF Segments
  <2> QED BY <1>1, <2>1
<1> QED BY <1>6, <1>7, <1>8, <1>9, WholeBlocks DEF Takes

LEMMA TakesBlocksLong ==
  ASSUME NEW q \in Nat, NEW r \in 56..63, NEW n \in Nat, n = 64 * q + r,
         NEW s \in Segments, Len(s) = 6, q # 0,
         s[1] = <<"data", 64 * q>>, s[2] = <<"data", r>>, s[3] = <<"pad", 64 - r>>,
         s[4] = <<"a", 4>>, s[5] = <<"zero", 56>>, s[6] = <<"b", 4>>
  PROVE  Takes(s, n)
<1>1. 64 * q \in Nat \ {0} /\ 64 - r \in Nat \ {0} /\ r \in Nat \ {0}
  OBVIOUS
<1>2. {"data", "pad", "a", "zero", "b"} \subseteq Kinds
  BY DEF Kinds
<1>3. /\ SizeOf(s, {"data"}, 1) = 64 * q /\ SizeOf(s, {"data"}, 2) = r /\ SizeOf(s, {"data"}, 3) = 0
      /\ SizeOf(s, {"data"}, 4) = 0 /\ SizeOf(s, {"data"}, 5) = 0 /\ SizeOf(s, {"data"}, 6) = 0
  BY <1>1, <1>2, FedSize
<1>4. /\ SizeOf(s, Kinds, 1) = 64 * q /\ SizeOf(s, Kinds, 2) = r /\ SizeOf(s, Kinds, 3) = 64 - r
      /\ SizeOf(s, Kinds, 4) = 4 /\ SizeOf(s, Kinds, 5) = 56 /\ SizeOf(s, Kinds, 6) = 4
  BY <1>1, <1>2, FedSize
<1>5. /\ SizeOf(s, {"pad"}, 1) = 0 /\ SizeOf(s, {"pad"}, 2) = 0 /\ SizeOf(s, {"pad"}, 3) = 64 - r
      /\ SizeOf(s, {"pad"}, 4) = 0 /\ SizeOf(s, {"pad"}, 5) = 0 /\ SizeOf(s, {"pad"}, 6) = 0
  BY <1>1, <1>2, FedSize
<1>6. Bytes(s, {"data"}) = n
  BY <1>3, BytesAre
<1>7. Bytes(s, Kinds) = 64 * (q + 2)
  BY <1>4, BytesAre
<1>8. Bytes(s, {"pad"}) >= 1
  BY <1>1, <1>5, BytesAre
<1>9. \A k \in DOMAIN s : s[k][2] > 0
  <2>1. DOMAIN s = 1..6
    BY LenProperties DEF Segments
  <2> QED BY <1>1, <2>1
<1> QED BY <1>6, <1>7, <1>8, <1>9, WholeBlocks DEF Takes

LEMMA TakesBlocksNone ==
  ASSUME NEW q \in Nat, NEW r \in 0..0, NEW n \in Nat, n = 64 * q + r,
         NEW s \in Segments, Len(s) = 4, q # 0,
         s[1] = <<"data", 64 * q>>, s[2] = <<"a", 4>>, s[3] = <<"pad", 56 - r>>,
         s[4] = <<"b", 4>>
  PROVE  Takes(s, n)
<1>1. 56 - r \in Nat \ {0} /\ 64 * q \in Nat \ {0}
  OBVIOUS
<1>2. {"data", "a", "pad", "b"} \subseteq Kinds
  BY DEF Kinds
<1>3. /\ SizeOf(s, {"data"}, 1) = 64 * q /\ SizeOf(s, {"data"}, 2) = 0 /\ SizeOf(s, {"data"}, 3) = 0
      /\ SizeOf(s, {"data"}, 4) = 0
  BY <1>1, <1>2, FedSize
<1>4. /\ SizeOf(s, Kinds, 1) = 64 * q /\ SizeOf(s, Kinds, 2) = 4 /\ SizeOf(s, Kinds, 3) = 56 - r
      /\ SizeOf(s, Kinds, 4) = 4
  BY <1>1, <1>2, FedSize
<1>5. /\ SizeOf(s, {"pad"}, 1) = 0 /\ SizeOf(s, {"pad"}, 2) = 0 /\ SizeOf(s, {"pad"}, 3) = 56 - r
      /\ SizeOf(s, {"pad"}, 4) = 0
  BY <1>1, <1>2, FedSize
<1>6. Bytes(s, {"data"}) = n
  BY <1>3, BytesAre
<1>7. Bytes(s, Kinds) = 64 * (q + 1)
  BY <1>4, BytesAre
<1>8. Bytes(s, {"pad"}) >= 1
  BY <1>1, <1>5, BytesAre
<1>9. \A k \in DOMAIN s : s[k][2] > 0
  <2>1. DOMAIN s = 1..4
    BY LenProperties DEF Segments
  <2> QED BY <1>1, <2>1
<1> QED BY <1>6, <1>7, <1>8, <1>9, WholeBlocks DEF Takes

LEMMA TakesBlocksShort ==
  ASSUME NEW q \in Nat, NEW r \in 1..55, NEW n \in Nat, n = 64 * q + r,
         NEW s \in Segments, Len(s) = 5, q # 0,
         s[1] = <<"data", 64 * q>>, s[2] = <<"a", 4>>, s[3] = <<"data", r>>,
         s[4] = <<"pad", 56 - r>>, s[5] = <<"b", 4>>
  PROVE  Takes(s, n)
<1>1. 56 - r \in Nat \ {0} /\ 64 * q \in Nat \ {0} /\ r \in Nat \ {0}
  OBVIOUS
<1>2. {"data", "a", "pad", "b"} \subseteq Kinds
  BY DEF Kinds
<1>3. /\ SizeOf(s, {"data"}, 1) = 64 * q /\ SizeOf(s, {"data"}, 2) = 0 /\ SizeOf(s, {"data"}, 3) = r
      /\ SizeOf(s, {"data"}, 4) = 0 /\ SizeOf(s, {"data"}, 5) = 0
  BY <1>1, <1>2, FedSize
<1>4. /\ SizeOf(s, Kinds, 1) = 64 * q /\ SizeOf(s, Kinds, 2) = 4 /\ SizeOf(s, Kinds, 3) = r
      /\ SizeOf(s, Kinds, 4) = 56 - r /\ SizeOf(s, Kinds, 5) = 4
  BY <1>1, <1>2, FedSize
<1>5. /\ SizeOf(s, {"pad"}, 1) = 0 /\ SizeOf(s, {"pad"}, 2) = 0 /\ SizeOf(s, {"pad"}, 3) = 0
      /\ SizeOf(s, {"pad"}, 4) = 56 - r /\ SizeOf(s, {"pad"}, 5) = 0
  BY <1>1, <1>2, FedSize
<1>6. Bytes(s, {"data"}) = n
  BY <1>3, BytesAre
<1>7. Bytes(s, Kinds) = 64 * (q + 1)
  BY <1>4, BytesAre
<1>8. Bytes(s, {"pad"}) >= 1
  BY <1>1, <1>5, BytesAre
<1>9. \A k \in DOMAIN s : s[k][2] > 0
  <2>1. DOMAIN s = 1..5
    BY LenProperties DEF Segments
  <2> QED BY <1>1, <2>1
<1> QED BY <1>6, <1>7, <1>8, <1>9, WholeBlocks DEF Takes

(* The checksum takes every byte of every container once.                  *)
LEMMA HashTakes ==
  ASSUME NEW n \in Nat
  PROVE  HashTakesAll(n)
<1>1. PICK q \in Nat, r \in 0..63 : n = 64 * q + r
  BY QuotientRemainder
<1>2. PICK m : m = LastBlocks(r)
  OBVIOUS
<1>3. PICK s : s = HashInput(n)
  OBVIOUS
<1>4. s = (IF q = 0 THEN <<>> ELSE <<Data(64 * q)>>) \o m
  BY <1>1, <1>2, <1>3, HashInputIs
<1>5. /\ m \in Segments
      /\ r >= 56 => /\ Len(m) = 5 /\ m[1] = Data(r) /\ m[2] = <<"pad", 64 - r>>
                    /\ m[3] = <<"a", 4>> /\ m[4] = <<"zero", 56>> /\ m[5] = <<"b", 4>>
      /\ r = 0 => /\ Len(m) = 3 /\ m[1] = <<"a", 4>> /\ m[2] = <<"pad", 56 - r>>
                  /\ m[3] = <<"b", 4>>
      /\ r \in 1..55 => /\ Len(m) = 4 /\ m[1] = <<"a", 4>> /\ m[2] = Data(r)
                        /\ m[3] = <<"pad", 56 - r>> /\ m[4] = <<"b", 4>>
  BY <1>2, LastBlocksAre
<1>6. Takes(s, n)
  <2>1. CASE q = 0
    <3>1. s = m
      BY <1>4, <1>5, <2>1, ConcatEmptySeq DEF Segments
    <3>2. CASE r \in 56..63
      <4>1. /\ Len(m) = 5 /\ m[1] = <<"data", r>> /\ m[2] = <<"pad", 64 - r>>
            /\ m[3] = <<"a", 4>> /\ m[4] = <<"zero", 56>> /\ m[5] = <<"b", 4>>
        <5>1. r >= 56
          BY <3>2
        <5> QED BY <1>5, <5>1 DEF Data
      <4> QED BY <1>1, <1>5, <2>1, <3>1, <3>2, <4>1, TakesLong
    <3>3. CASE r \in 0..0
      BY <1>1, <1>5, <2>1, <3>1, <3>3, TakesNone DEF Data
    <3>4. CASE r \in 1..55
      BY <1>1, <1>5, <2>1, <3>1, <3>4, TakesShort DEF Data
    <3> QED BY <3>2, <3>3, <3>4
  <2>2. CASE q # 0
    <3>1. Data(64 * q) \in Kinds \X Nat
      <4>1. 64 * q \in Nat
        OBVIOUS
      <4> QED BY <4>1, SegmentsAre
    <3>2. Prefixed(Kinds \X Nat, Data(64 * q), m, s)
      BY <1>4, <1>5, <2>2, <3>1, PrefixedIs DEF Segments
    <3>3. s \in Segments /\ Len(s) = Len(m) + 1 /\ s[1] = <<"data", 64 * q>>
          /\ \A i \in 1..Len(m) : s[i + 1] = m[i]
      BY <3>2 DEF Prefixed, Segments, Data
    <3>4. CASE r \in 56..63
      <4>1. Len(m) = 5 /\ Len(s) = 6
        <5>1. Len(m) = 5
          BY <1>5, <3>4
        <5> QED BY <3>3, <5>1
      <4>2. s[2] = m[1] /\ s[3] = m[2] /\ s[4] = m[3] /\ s[5] = m[4] /\ s[6] = m[5]
        BY <3>3, <4>1
      <4> QED BY <1>1, <1>5, <2>2, <3>3, <3>4, <4>1, <4>2, TakesBlocksLong DEF Data
    <3>5. CASE r \in 0..0
      <4>1. Len(m) = 3 /\ Len(s) = 4
        <5>1. Len(m) = 3
          BY <1>5, <3>5
        <5> QED BY <3>3, <5>1
      <4>2. s[2] = m[1] /\ s[3] = m[2] /\ s[4] = m[3]
        BY <3>3, <4>1
      <4> QED BY <1>1, <1>5, <2>2, <3>3, <3>5, <4>1, <4>2, TakesBlocksNone DEF Data
    <3>6. CASE r \in 1..55
      <4>1. Len(m) = 4 /\ Len(s) = 5
        <5>1. Len(m) = 4
          BY <1>5, <3>6
        <5> QED BY <3>3, <5>1
      <4>2. s[2] = m[1] /\ s[3] = m[2] /\ s[4] = m[3] /\ s[5] = m[4]
        BY <3>3, <4>1
      <4> QED BY <1>1, <1>5, <2>2, <3>3, <3>6, <4>1, <4>2, TakesBlocksShort DEF Data
    <3> QED BY <3>4, <3>5, <3>6
  <2> QED BY <2>1, <2>2
<1> QED BY <1>3, <1>6 DEF HashTakesAll, Takes, Kinds, HashBlock

-----------------------------------------------------------------------------
(* The chunks of a run.                                                    *)

(* A writer of tokens writes a number of them, whatever it is given.       *)
WritesTokens == \A version, p : IsSequence(p) => Len(Serializer(version, p)) \in Nat

(* What a run does to the chunks it has read.                              *)
CInv ==
  /\ phase = "closed" => input \in Inputs
  /\ phase \notin {"closed", "failed"} =>
       input \in Inputs /\ ~Rejected(input) /\ ShaderChunk(ReadChunks(input)) # 0
  /\ phase \in {"steps", "adding"} => chunks = ReadChunks(input)
  /\ phase = "done" =>
       \E version, p :
         /\ IsSequence(p)
         /\ chunks = SerializedChunks(ReadChunks(input), version, p)
         /\ modified => output = Serialize(ReadChunks(input), version, p)

LEMMA CInit == Init => CInv
BY DEF Init, CInv

LEMMA COpen == CInv /\ Open => CInv'
<1> SUFFICES ASSUME CInv, Open PROVE CInv'
  OBVIOUS
<1>1. /\ phase = "closed" /\ input \in Inputs /\ input' = input
      /\ \/ phase' = "failed"
         \/ /\ ~Rejected(input) /\ phase' = "steps" /\ chunks' = ReadChunks(input)
            /\ \/ Parsed(ReadChunks(input)).instructions # <<>>
               \/ Parsed(ReadChunks(input)).temp_count # 0
  BY DEF Open, CInv
<1>2. CASE phase' = "failed"
  BY <1>2 DEF CInv
<1>3. CASE phase' = "steps"
  <2>1. ~Rejected(input) /\ chunks' = ReadChunks(input)
    BY <1>1, <1>3
  <2>2. ASSUME ShaderChunk(ReadChunks(input)) = 0 PROVE FALSE
    <3>1. Declaring(<<>>, {"dcl_temps"}) = {}
      BY DEF Declaring
    <3>2. /\ Parsed(ReadChunks(input)).instructions = <<>>
          /\ Parsed(ReadChunks(input)).temp_count = 0
      BY <2>2, <3>1 DEF Parsed
    <3> QED BY <1>1, <1>3, <3>2
  <2> QED BY <1>1, <1>3, <2>1, <2>2 DEF CInv
<1> QED BY <1>1, <1>2, <1>3

LEMMA CFinish == DInv /\ CInv /\ Finish => CInv'
<1> SUFFICES ASSUME DInv, CInv, Finish PROVE CInv'
  OBVIOUS
<1> DEFINE q == IF modified'
                  THEN EnsureTempDeclaration(prog.instructions, prog.temp_count + pool.size)
                  ELSE prog.instructions
<1>1. /\ phase = "steps" /\ phase' = "done" /\ input' = input
      /\ chunks' = SerializedChunks(chunks, Version, q)
      /\ modified' => output' = Serialize(chunks, Version, q)
  BY DEF Finish
<1>2. /\ input \in Inputs /\ ~Rejected(input) /\ ShaderChunk(ReadChunks(input)) # 0
      /\ chunks = ReadChunks(input)
  BY <1>1 DEF CInv
<1>3. IsSequence(q)
  BY <1>1, EnsureKeeps DEF DInv, ProgramOK, KeptOK, OnceOK
<1> HIDE DEF q
<1> QED BY <1>1, <1>2, <1>3 DEF CInv

LEMMA COthers ==
  ASSUME CInv, DeclareTemplate \/ BeginAddResource \/ AddDeclaration \/ AddTemporary
               \/ FinishAddResource \/ UNCHANGED vars
  PROVE  CInv'
<1>1. CASE UNCHANGED vars
  BY <1>1 DEF CInv, vars
<1>2. CASE DeclareTemplate \/ BeginAddResource \/ AddDeclaration \/ AddTemporary
           \/ FinishAddResource
  <2>1. /\ phase \in {"steps", "adding"} /\ phase' \in {"steps", "adding", "failed"}
        /\ input' = input /\ chunks' = chunks
    BY <1>2 DEF DeclareTemplate, BeginAddResource, AddDeclaration, AddTemporary,
                FinishAddResource, Refuse
  <2> QED BY <2>1 DEF CInv
<1> QED BY <1>1, <1>2

LEMMA CInductive == DInv /\ CInv /\ [Next]_vars => CInv'
BY COpen, CFinish, COthers DEF Next

(* What is read from an input can be written.                              *)
LEMMA InputChunks ==
  ASSUME NEW c \in Inputs, ShaderChunk(ReadChunks(c)) # 0
  PROVE  LET cs == ReadChunks(c)
             s == ShaderChunk(cs)
         IN /\ Writable(cs) /\ s \in DOMAIN cs /\ cs[s].kind = "shader"
            /\ \A k \in DOMAIN cs : DOMAIN cs[k] = {"kind", "size", "data"}
<1> DEFINE S == {c.at[o] : o \in {x \in Range(c.offsets) : Fits(c, x)}}
<1>1. PICK cs : cs = ReadChunks(c)
  OBVIOUS
<1>2. cs \in Seq(S)
  BY <1>1, InputsAssumption, ReadChunksIn
<1>3. \A x \in S : DOMAIN x = {"kind", "size", "data"} /\ x.size \in Nat
  BY InputsAssumption DEF Fits
<1>4. Len(cs) \in Nat /\ DOMAIN cs = 1..Len(cs) /\ \A k \in DOMAIN cs : cs[k] \in S
  BY <1>2, LenProperties, ElementOfSeq
<1> HIDE DEF S
<1> DEFINE shaders == {k \in DOMAIN cs : cs[k].kind = "shader"}
<1>5. shaders # {} /\ ShaderChunk(cs) = Min(shaders)
  BY <1>1 DEF ShaderChunk
<1>6. ShaderChunk(cs) \in shaders
  <2>1. shaders \in SUBSET Nat
    BY <1>4
  <2> HIDE DEF shaders
  <2> QED BY <1>5, <2>1, MinOf
<1>7. cs # <<>>
  BY <1>6
<1>8. Writable(cs)
  BY <1>2, <1>3, <1>4, <1>7 DEF Writable, IsSequence
<1> QED BY <1>1, <1>3, <1>4, <1>6, <1>8

(* What a run makes of them too; only the shader chunk differs.            *)
LEMMA WrittenChunks ==
  ASSUME WritesTokens, NEW c \in Inputs, ShaderChunk(ReadChunks(c)) # 0,
         NEW version, NEW p, IsSequence(p)
  PROVE  LET old == ReadChunks(c)
             new == SerializedChunks(old, version, p)
         IN /\ Writable(new) /\ Len(new) = Len(old) /\ DOMAIN new = DOMAIN old
            /\ \A k \in DOMAIN old :
                 old[k].kind = new[k].kind /\ (old[k].kind # "shader" => old[k] = new[k])
<1>1. PICK old : old = ReadChunks(c)
  OBVIOUS
<1>2. PICK s : s = ShaderChunk(old)
  OBVIOUS
<1>3. /\ Writable(old) /\ s \in DOMAIN old /\ old[s].kind = "shader" /\ s # 0
      /\ \A k \in DOMAIN old : DOMAIN old[k] = {"kind", "size", "data"}
  BY <1>1, <1>2, InputChunks
<1>4. PICK tokens : tokens = Serializer(version, p)
  OBVIOUS
<1>5. Len(tokens) \in Nat
  BY <1>4 DEF WritesTokens
<1>6. PICK e : e = [old[s] EXCEPT !.data = tokens, !.size = 4 * Len(tokens)]
  OBVIOUS
<1>7. e.size \in Nat /\ e.kind = "shader"
  BY <1>3, <1>5, <1>6
<1>8. PICK new : new = SerializedChunks(old, version, p)
  OBVIOUS
<1>9. new = [old EXCEPT ![s] = e]
  BY <1>2, <1>3, <1>4, <1>6, <1>8 DEF SerializedChunks
<1>10. DOMAIN new = DOMAIN old /\ new[s] = e /\ \A k \in DOMAIN old : k # s => new[k] = old[k]
  BY <1>3, <1>9
<1>11. Len(old) \in Nat \ {0} /\ DOMAIN old = 1..Len(old)
  BY <1>3, WritableDomain
<1>12. IsSequence(new) /\ Len(new) = Len(old) /\ new # <<>>
  <2> DEFINE R == {new[k] : k \in DOMAIN old}
  <2>1. new \in [1..Len(old) -> R]
    BY <1>9, <1>11
  <2>2. new \in Seq(R) /\ Len(new) = Len(old)
    <3> HIDE DEF R
    <3> QED BY <1>11, <2>1, SeqDef, LenProperties
  <2>3. new # <<>>
    BY <1>10, <1>11
  <2> QED BY <2>2, <2>3 DEF IsSequence
<1>13. \A k \in DOMAIN new : new[k].size \in Nat
  BY <1>3, <1>7, <1>10 DEF Writable
<1>14. Writable(new)
  BY <1>12, <1>13 DEF Writable
<1> QED BY <1>1, <1>3, <1>7, <1>8, <1>10, <1>12, <1>14

LEMMA CImplies == WritesTokens /\ CInv => ContainerWellFormed
<1> SUFFICES ASSUME WritesTokens, CInv, phase = "done", modified
             PROVE  ContainerWellFormed
  BY DEF ContainerWellFormed
<1>1. PICK version, p :
        /\ IsSequence(p)
        /\ chunks = SerializedChunks(ReadChunks(input), version, p)
        /\ output = Serialize(ReadChunks(input), version, p)
  BY DEF CInv
<1>2. input \in Inputs /\ ShaderChunk(ReadChunks(input)) # 0
  BY DEF CInv
<1>3. PICK old : old = ReadChunks(input)
  OBVIOUS
<1>4. /\ Writable(chunks) /\ Len(chunks) = Len(old) /\ DOMAIN chunks = DOMAIN old
      /\ \A k \in DOMAIN old :
           old[k].kind = chunks[k].kind /\ (old[k].kind # "shader" => old[k] = chunks[k])
  BY <1>1, <1>2, <1>3, WrittenChunks
<1>5. old # <<>>
  BY <1>2, <1>3 DEF ShaderChunk
<1>6. output = Layout(chunks)
  BY <1>1, <1>3, <1>5 DEF Serialize
<1>7. LaidOut(output, chunks)
  BY <1>4, <1>6, LayoutIs
<1>8. PICK o : o = output.offsets
  OBVIOUS
<1>9. Len(chunks) \in Nat /\ DOMAIN chunks = 1..Len(chunks)
  BY <1>4, WritableDomain
<1>10. \A k \in DOMAIN o :
         /\ o[k] % 4 = 0
         /\ o[k] >= HeaderSize + 4 * Len(o)
         /\ IF k = Len(o) THEN o[k] + ChunkHeader + chunks[k].size <= output.total
            ELSE o[k] + ChunkHeader + chunks[k].size <= o[k + 1]
  <2> SUFFICES ASSUME NEW k \in DOMAIN o
               PROVE  /\ o[k] % 4 = 0
                      /\ o[k] >= HeaderSize + 4 * Len(o)
                      /\ IF k = Len(o) THEN o[k] + ChunkHeader + chunks[k].size <= output.total
                         ELSE o[k] + ChunkHeader + chunks[k].size <= o[k + 1]
    OBVIOUS
  <2>1. k \in DOMAIN chunks /\ Len(o) = Len(chunks)
    BY <1>7, <1>8 DEF LaidOut
  <2>2. /\ o[k] % 4 = 0 /\ o[k] >= HeaderSize + 4 * Len(o)
        /\ o[k] + ChunkHeader + chunks[k].size <= output.total
    BY <1>7, <1>8, <2>1 DEF LaidOut
  <2>3. CASE k # Len(o)
    <3>1. k + 1 \in DOMAIN chunks /\ k < k + 1
      BY <1>9, <2>1, <2>3
    <3>2. o[k] + ChunkHeader + chunks[k].size <= o[k + 1]
      BY <1>7, <1>8, <2>1, <3>1 DEF LaidOut
    <3> QED BY <2>2, <2>3, <3>2
  <2> QED BY <2>2, <2>3
<1>11. ReadChunks(output) = chunks
  BY <1>7 DEF LaidOut
<1>12. HashTakesAll(output.size - 20)
  <2>1. output.size - 20 \in Nat
    BY <1>7 DEF LaidOut
  <2> QED BY <2>1, HashTakes
<1> QED BY <1>3, <1>4, <1>8, <1>10, <1>11, <1>12 DEF ContainerWellFormed

(* A changed program is written as a well-formed container.                *)
THEOREM ContainerWellFormedHolds ==
  ASSUME WritesTokens
  PROVE  Spec => []ContainerWellFormed
BY CInit, CInductive, CImplies, DInit, DInductive, PTL DEF Spec

================================================================================
