------------------------- MODULE D3D12Draw_proofs -------------------------
(***************************************************************************)
(* The add-on on a D3D12 command list, for every set of pipelines, root    *)
(* signatures, tables and root parameters, every configured register range *)
(* and every recipe: an extended root signature is sound and keeps the     *)
(* game's indices, the list stays the one the game recorded, a draw of the *)
(* game has the game's heaps, and one with a replacement has the           *)
(* descriptors its shaders read.  Assumed: handles are no records          *)
(* (HandlesAreAtoms); for the heaps, a game without the Habits; for the    *)
(* descriptors, shaders of a pipeline that have a handle at one register   *)
(* (the run d3d12_stages shows what breaks without).                       *)
(***************************************************************************)
EXTENDS D3D12Draw, TLAPS, WellFoundedInduction

(* The order of the naturals is well-founded.                              *)
LEMMA LessThanWF == IsWellFoundedOn({ss \in Nat \X Nat : ss[1] < ss[2]}, Nat)
BY NatLessThanWellFounded DEF OpToRel

-----------------------------------------------------------------------------
(* Root signatures: what OnCreatePipelineLayout does to one.               *)

(* Min of a set of naturals is its least element.                          *)
LEMMA MinOf ==
  ASSUME NEW S \in SUBSET Nat, S # {}
  PROVE  Min(S) \in S /\ \A y \in S : Min(S) <= y
<1> DEFINE R == {ss \in Nat \X Nat : ss[1] < ss[2]}
<1>1. IsWellFoundedOn(R, Nat)
  BY LessThanWF
<1> HIDE DEF R
<1>2. PICK x \in S : \A y \in S : <<y, x>> \notin R
  BY <1>1, WFMin
<1>3. ASSUME NEW y \in S PROVE x <= y
  <2>1. x \in Nat /\ y \in Nat
    OBVIOUS
  <2>2. <<y, x>> \notin R
    BY <1>2
  <2>3. <<y, x>> \in Nat \X Nat /\ <<y, x>>[1] = y /\ <<y, x>>[2] = x
    BY <2>1
  <2>4. ~ (y < x)
    BY <2>2, <2>3 DEF R
  <2>5. QED
    BY <2>1, <2>4
<1>4. QED
  BY <1>3 DEF Min

(* Max of a bounded set of naturals is its greatest element.               *)
LEMMA MaxOf ==
  ASSUME NEW n \in Nat, NEW S \in SUBSET (0..n), S # {}
  PROVE  Max(S) \in S /\ \A y \in S : Max(S) >= y
<1> DEFINE T == {n - x : x \in S}
<1>1. T \in SUBSET Nat /\ T # {}
  <2>1. \A x \in S : n - x \in Nat
    OBVIOUS
  <2>2. PICK x \in S : TRUE
    OBVIOUS
  <2>3. n - x \in T
    OBVIOUS
  <2>4. QED
    BY <2>1, <2>3
<1>2. Min(T) \in T /\ \A y \in T : Min(T) <= y
  BY <1>1, MinOf
<1>3. PICK x \in S : Min(T) = n - x
  BY <1>2
<1>4. \A y \in S : x >= y
  BY <1>2, <1>3
<1>5. QED
  BY <1>4 DEF Max

(* `real' is `s' with the ranges of the add-on in front of its static      *)
(* samplers.                                                               *)
Extended(s, real) ==
  LET k == InsertionIndex(s)
      m == Len(InjectedRanges)
  IN /\ real \in Seq(Parameters) /\ Len(real) = Len(s) + m
     /\ \A i \in 1..(k - 1) : real[i] = s[i]
     /\ \A i \in 1..m : real[k - 1 + i] = InjectedParam(InjectedRanges[i])
     /\ \A i \in k..Len(s) : real[i + m] = s[i]

(* The classes are the three.                                              *)
LEMMA ClassNames == Range(Classes) = {"srv", "uav", "sampler"}
<1>1. DOMAIN Classes = 1..3 /\ Classes[1] = "srv" /\ Classes[2] = "uav" /\ Classes[3] = "sampler"
  BY DEF Classes
<1>2. QED
  BY <1>1 DEF Range

(* The range of a class is the one that was configured.                    *)
LEMMA InjectedRangeType ==
  ASSUME NEW class \in {"srv", "uav", "sampler"}
  PROVE  /\ InjectedRange(class) \in Registers
         /\ InjectedRange(class).type = class
         /\ InjectedRange(class).reg = Injected[class].base
         /\ InjectedRange(class).space = Injected.space
         /\ InjectedRange(class).count = Injected[class].count
         /\ Injected[class].base \in Nat /\ Injected[class].count \in Nat
<1>1. Injected[class] \in [base : Nat, count : Nat] /\ Injected.space \in Nat
  BY InjectionAssumption, ClassNames
<1>2. class \in Types
  BY DEF Types
<1>3. /\ InjectedRange(class).type = class
      /\ InjectedRange(class).reg = Injected[class].base
      /\ InjectedRange(class).space = Injected.space
      /\ InjectedRange(class).count = Injected[class].count
  BY DEF InjectedRange
<1>4. Injected[class].base \in Nat /\ Injected[class].count \in Nat
  BY <1>1
<1>5. InjectedRange(class) \in Registers
  BY <1>1, <1>2, <1>4 DEF InjectedRange, Registers
<1>6. QED
  BY <1>3, <1>4, <1>5

(* A push of one range is a parameter.                                     *)
LEMMA ParamType ==
  ASSUME NEW r \in Registers
  PROVE  InjectedParam(r) \in Parameters
<1>1. "push" \in Kinds /\ 0 \in Nat /\ <<r>> \in Seq(Registers)
  BY DEF Kinds
<1>2. QED
  BY <1>1 DEF InjectedParam, Parameters

(* Where the elements of three joined sequences are.                       *)
LEMMA ThreeParts ==
  ASSUME NEW P, NEW a \in Seq(P), NEW b \in Seq(P), NEW c \in Seq(P)
  PROVE  /\ a \o b \o c \in Seq(P)
         /\ Len(a \o b \o c) = Len(a) + Len(b) + Len(c)
         /\ \A i \in 1..Len(a) : (a \o b \o c)[i] = a[i]
         /\ \A i \in 1..Len(b) : (a \o b \o c)[Len(a) + i] = b[i]
         /\ \A i \in 1..Len(c) : (a \o b \o c)[Len(a) + Len(b) + i] = c[i]
<1>1. /\ a \o b \in Seq(P) /\ Len(a \o b) = Len(a) + Len(b)
      /\ \A i \in 1..Len(a) : (a \o b)[i] = a[i]
      /\ \A i \in 1..Len(b) : (a \o b)[Len(a) + i] = b[i]
  OBVIOUS
<1>2. PICK ab \in Seq(P) : ab = a \o b
  BY <1>1
<1>3. /\ ab \o c \in Seq(P) /\ Len(ab \o c) = Len(ab) + Len(c)
      /\ \A i \in 1..Len(ab) : (ab \o c)[i] = ab[i]
      /\ \A i \in 1..Len(c) : (ab \o c)[Len(ab) + i] = c[i]
  OBVIOUS
<1>4. Len(a) \in Nat /\ Len(b) \in Nat /\ Len(ab) = Len(a) + Len(b)
  BY <1>1, <1>2
<1>5. \A i \in 1..Len(a) : (ab \o c)[i] = a[i]
  BY <1>1, <1>2, <1>3, <1>4
<1>6. \A i \in 1..Len(b) : (ab \o c)[Len(a) + i] = b[i]
  BY <1>1, <1>2, <1>3, <1>4
<1>7. QED
  BY <1>2, <1>3, <1>4, <1>5, <1>6

(* InjectedRanges has one range for every class that has registers, and no *)
(* class twice.                                                            *)
LEMMA InjectedRangesAre ==
  /\ InjectedRanges \in Seq(Registers)
  /\ \A i \in DOMAIN InjectedRanges :
       \E class \in {"srv", "uav", "sampler"} :
         InjectedRanges[i] = InjectedRange(class) /\ Injected[class].count # 0
  /\ \A i, j \in DOMAIN InjectedRanges :
       InjectedRanges[i].type = InjectedRanges[j].type => i = j
<1> DEFINE add(class) == IF Injected[class].count # 0 THEN <<InjectedRange(class)>> ELSE <<>>
<1>1. \A class \in {"srv", "uav", "sampler"} :
        /\ add(class) \in Seq(Registers)
        /\ Len(add(class)) \in {0, 1}
        /\ \A i \in DOMAIN add(class) :
             i = 1 /\ add(class)[i] = InjectedRange(class) /\ Injected[class].count # 0
  BY InjectedRangeType
<1> HIDE DEF add
<1>2. InjectedRanges = add("srv") \o add("uav") \o add("sampler")
  BY DEF InjectedRanges, add
<1>3. PICK a, b, c : a = add("srv") /\ b = add("uav") /\ c = add("sampler")
  OBVIOUS
<1>4. /\ a \in Seq(Registers) /\ b \in Seq(Registers) /\ c \in Seq(Registers)
      /\ Len(a) \in {0, 1} /\ Len(b) \in {0, 1} /\ Len(c) \in {0, 1}
      /\ \A i \in 1..Len(a) : a[i] = InjectedRange("srv") /\ Injected["srv"].count # 0
      /\ \A i \in 1..Len(b) : b[i] = InjectedRange("uav") /\ Injected["uav"].count # 0
      /\ \A i \in 1..Len(c) : c[i] = InjectedRange("sampler") /\ Injected["sampler"].count # 0
  BY <1>1, <1>3
<1>5. InjectedRanges = a \o b \o c
  BY <1>2, <1>3
<1>6. /\ InjectedRanges \in Seq(Registers)
      /\ Len(InjectedRanges) = Len(a) + Len(b) + Len(c)
      /\ \A i \in 1..Len(a) : InjectedRanges[i] = a[i]
      /\ \A i \in 1..Len(b) : InjectedRanges[Len(a) + i] = b[i]
      /\ \A i \in 1..Len(c) : InjectedRanges[Len(a) + Len(b) + i] = c[i]
  BY <1>4, <1>5, ThreeParts
<1>7. \A i \in 1..Len(InjectedRanges) :
        \/ i <= Len(a) /\ InjectedRanges[i] = InjectedRange("srv") /\ Injected["srv"].count # 0
        \/ /\ i = Len(a) + 1 /\ i <= Len(a) + Len(b)
           /\ InjectedRanges[i] = InjectedRange("uav") /\ Injected["uav"].count # 0
        \/ /\ i = Len(a) + Len(b) + 1
           /\ InjectedRanges[i] = InjectedRange("sampler") /\ Injected["sampler"].count # 0
  <2>1. TAKE i \in 1..Len(InjectedRanges)
  <2>2. Len(a) \in Nat /\ Len(b) \in Nat /\ Len(c) \in Nat /\ i \in Nat
    BY <1>4, <1>6
  <2>3. CASE i <= Len(a)
    BY <1>4, <1>6, <2>2, <2>3
  <2>4. CASE i > Len(a) /\ i <= Len(a) + Len(b)
    <3>1. 1 \in 1..Len(b) /\ i = Len(a) + 1
      BY <1>4, <2>2, <2>4
    <3>2. QED
      BY <1>4, <1>6, <2>2, <2>4, <3>1
  <2>5. CASE i > Len(a) + Len(b)
    <3>1. 1 \in 1..Len(c) /\ i = Len(a) + Len(b) + 1
      BY <1>4, <1>6, <2>2, <2>5
    <3>2. QED
      BY <1>4, <1>6, <2>2, <2>5, <3>1
  <2>6. QED
    BY <2>2, <2>3, <2>4, <2>5
<1>8. DOMAIN InjectedRanges = 1..Len(InjectedRanges)
  BY <1>6
<1>9. \A i \in DOMAIN InjectedRanges :
        \E class \in {"srv", "uav", "sampler"} :
          InjectedRanges[i] = InjectedRange(class) /\ Injected[class].count # 0
  BY <1>7, <1>8
<1>10. ASSUME NEW i \in DOMAIN InjectedRanges, NEW j \in DOMAIN InjectedRanges,
              InjectedRanges[i].type = InjectedRanges[j].type
       PROVE  i = j
  <2>1. /\ InjectedRange("srv").type = "srv" /\ InjectedRange("uav").type = "uav"
        /\ InjectedRange("sampler").type = "sampler"
    BY InjectedRangeType
  <2>2. i \in Nat /\ j \in Nat /\ i >= 1 /\ j >= 1 /\ Len(a) \in {0, 1}
    BY <1>4, <1>8
  <2>3. \A k \in DOMAIN InjectedRanges :
          /\ InjectedRanges[k].type = "srv" => k = 1
          /\ InjectedRanges[k].type = "uav" => k = Len(a) + 1
          /\ InjectedRanges[k].type = "sampler" => k = Len(a) + Len(b) + 1
          /\ InjectedRanges[k].type \in {"srv", "uav", "sampler"}
    <3>1. TAKE k \in DOMAIN InjectedRanges
    <3>2. k \in Nat /\ k >= 1
      BY <1>8
    <3>3. CASE k <= Len(a) /\ InjectedRanges[k] = InjectedRange("srv")
      <4>1. k = 1
        <5>1. Len(a) = 0 \/ Len(a) = 1
          BY <2>2
        <5>2. QED
          BY <3>2, <3>3, <5>1
      <4>2. QED
        BY <2>1, <3>3, <4>1
    <3>4. CASE k = Len(a) + 1 /\ InjectedRanges[k] = InjectedRange("uav")
      BY <2>1, <3>4
    <3>5. CASE k = Len(a) + Len(b) + 1 /\ InjectedRanges[k] = InjectedRange("sampler")
      BY <2>1, <3>5
    <3>6. QED
      BY <1>7, <1>8, <3>3, <3>4, <3>5
  <2>4. QED
    BY <1>10, <2>3
<1>11. QED
  BY <1>6, <1>9, <1>10

(* Everything in front of the insertion index is no static sampler, and    *)
(* what is at it is one.                                                   *)
LEMMA InsertionIndexIs ==
  ASSUME NEW s \in Seq(Parameters)
  PROVE  /\ InsertionIndex(s) \in 1..(Len(s) + 1)
         /\ \A j \in 1..(InsertionIndex(s) - 1) : ~ StaticOnly(s[j])
         /\ InsertionIndex(s) <= Len(s) => StaticOnly(s[InsertionIndex(s)])
<1> DEFINE statics == {i \in DOMAIN s : StaticOnly(s[i])}
<1> DEFINE S == statics \cup {Len(s) + 1}
<1>1. S \in SUBSET Nat /\ S # {}
  OBVIOUS
<1>2. Min(S) \in S /\ \A y \in S : Min(S) <= y
  BY <1>1, MinOf
<1>3. PICK k : k = Min(S)
  OBVIOUS
<1>4. k \in 1..(Len(s) + 1) /\ k \in S /\ \A y \in S : k <= y
  BY <1>2, <1>3
<1>5. k <= Len(s) => StaticOnly(s[k])
  BY <1>4
<1>6. ASSUME NEW j \in 1..(k - 1) PROVE ~ StaticOnly(s[j])
  <2>1. j \in 1..Len(s) /\ ~ (k <= j)
    BY <1>4
  <2>2. j \notin S
    BY <1>4, <2>1
  <2>3. QED
    BY <2>1, <2>2
<1>7. k = InsertionIndex(s)
  BY <1>3 DEF InsertionIndex
<1>8. QED
  BY <1>4, <1>5, <1>6, <1>7

(* OnCreatePipelineLayout leaves the parameters alone or extends them.     *)
LEMMA CreatedLayout ==
  ASSUME NEW s \in Seq(Parameters), NEW any_add \in BOOLEAN
  PROVE  \/ CreatePipelineLayout(s, any_add) = s
         \/ Injects(s) /\ Extended(s, CreatePipelineLayout(s, any_add))
<1>1. CASE ~ (ShouldInject(any_add) /\ Injects(s))
  BY <1>1 DEF CreatePipelineLayout
<1>2. CASE ShouldInject(any_add) /\ Injects(s)
  <2>1. PICK k : k = InsertionIndex(s)
    OBVIOUS
  <2>2. PICK m : m = Len(InjectedRanges)
    OBVIOUS
  <2>3. PICK a, b, c :
          /\ a = SubSeq(s, 1, k - 1)
          /\ b = [i \in DOMAIN InjectedRanges |-> InjectedParam(InjectedRanges[i])]
          /\ c = SubSeq(s, k, Len(s))
    OBVIOUS
  <2>4. k \in 1..(Len(s) + 1) /\ m \in Nat /\ Len(s) \in Nat
    BY <2>1, <2>2, InsertionIndexIs, InjectedRangesAre
  <2>5. /\ a \in Seq(Parameters) /\ Len(a) = k - 1 /\ \A i \in 1..(k - 1) : a[i] = s[i]
    BY <2>3, <2>4
  <2>6. /\ b \in Seq(Parameters) /\ Len(b) = m
        /\ \A i \in 1..m : b[i] = InjectedParam(InjectedRanges[i])
    <3>1. DOMAIN InjectedRanges = 1..m /\ \A i \in 1..m : InjectedRanges[i] \in Registers
      BY <2>2, InjectedRangesAre
    <3>2. \A i \in 1..m : InjectedParam(InjectedRanges[i]) \in Parameters
      BY <3>1, ParamType
    <3>3. b = [i \in 1..m |-> InjectedParam(InjectedRanges[i])]
      BY <2>3, <3>1
    <3>4. QED
      BY <2>4, <3>2, <3>3
  <2>7. /\ c \in Seq(Parameters) /\ Len(c) = Len(s) - k + 1
        /\ \A i \in 1..(Len(s) - k + 1) : c[i] = s[i + k - 1]
    BY <2>3, <2>4
  <2>8. CreatePipelineLayout(s, any_add) = a \o b \o c
    BY <1>2, <2>1, <2>3 DEF CreatePipelineLayout
  <2>9. a \in Seq(Parameters) /\ b \in Seq(Parameters) /\ c \in Seq(Parameters)
    BY <2>5, <2>6, <2>7
  <2>17. PICK r \in Seq(Parameters) : r = a \o b \o c
    BY <2>9, ThreeParts
  <2>10. /\ Len(r) = Len(a) + Len(b) + Len(c)
         /\ \A i \in 1..Len(a) : r[i] = a[i]
         /\ \A i \in 1..Len(b) : r[Len(a) + i] = b[i]
         /\ \A i \in 1..Len(c) : r[Len(a) + Len(b) + i] = c[i]
    BY <2>9, <2>17, ThreeParts
  <2>12. Len(r) = Len(s) + m
    BY <2>4, <2>5, <2>6, <2>7, <2>10
  <2>13. \A i \in 1..(k - 1) : r[i] = s[i]
    BY <2>5, <2>10
  <2>14. \A i \in 1..m : r[k - 1 + i] = InjectedParam(InjectedRanges[i])
    BY <2>5, <2>6, <2>10
  <2>15. \A i \in k..Len(s) : r[i + m] = s[i]
    <3>1. TAKE i \in k..Len(s)
    <3>2. /\ i - k + 1 \in 1..(Len(s) - k + 1) /\ i - k + 1 + k - 1 = i
          /\ (k - 1) + m + (i - k + 1) = i + m
      BY <2>4
    <3>3. r[(k - 1) + m + (i - k + 1)] = c[i - k + 1]
      BY <2>5, <2>6, <2>7, <2>10, <3>2
    <3>4. c[i - k + 1] = s[i - k + 1 + k - 1]
      BY <2>7, <3>2
    <3>5. QED
      BY <3>2, <3>3, <3>4
  <2>16. QED
    BY <1>2, <2>1, <2>2, <2>8, <2>17, <2>12, <2>13, <2>14, <2>15 DEF Extended
<1>3. QED
  BY <1>1, <1>2

(* The root parameters are those in front of the static samplers.          *)
LEMMA RootsAre ==
  ASSUME NEW s \in Seq(Parameters)
  PROVE  /\ DOMAIN Roots(s) = {i \in 1..Len(s) : \A j \in 1..i : ~ StaticOnly(s[j])}
         /\ \A i \in DOMAIN Roots(s) : Roots(s)[i] = s[i]
BY DEF Roots

(* What is assumed of the root signatures of a game.                       *)
LEMMA SignatureType ==
  ASSUME NEW l \in Layouts, NEW s \in Signatures[l]
  PROVE  /\ s \in Seq(Parameters)
         /\ \A i \in 1..Len(s) : s[i].kind = "push" => s[i] = InjectedParam(Head(s[i].ranges))
         /\ \A i, j \in 1..Len(s) :
              StaticOnly(s[i]) /\ i <= j => s[j].kind # "push" /\ StaticOnly(s[j])
<1>1. s \in Seq(Parameters) /\ DOMAIN s = 1..Len(s)
  BY ParamsWellFormed
<1>2. \A i \in 1..Len(s) : s[i].kind = "push" => s[i] = InjectedParam(Head(s[i].ranges))
  BY <1>1, ParamsWellFormed
<1>3. \A i, j \in 1..Len(s) : StaticOnly(s[i]) /\ i < j => StaticOnly(s[j])
  BY <1>1, StaticsLast
<1>4. \A i \in 1..Len(s) : StaticOnly(s[i]) => s[i].kind # "push"
  BY DEF StaticOnly
<1>5. QED
  BY <1>1, <1>2, <1>3, <1>4

(* A table of the add-on is no static sampler.                             *)
LEMMA PushNotStatic ==
  ASSUME NEW r
  PROVE  /\ InjectedParam(r).kind = "push" /\ InjectedParam(r).ranges = <<r>>
         /\ ~ StaticOnly(InjectedParam(r))
         /\ Head(InjectedParam(r).ranges) = r
BY DEF InjectedParam, StaticOnly

(* A root parameter of the game keeps its index, and is what it was.       *)
LEMMA GameRootsKept ==
  ASSUME NEW l \in Layouts, NEW s \in Signatures[l], NEW any_add \in BOOLEAN,
         NEW i \in DOMAIN Roots(s)
  PROVE  /\ i \in DOMAIN Roots(CreatePipelineLayout(s, any_add))
         /\ Roots(CreatePipelineLayout(s, any_add))[i] = Roots(s)[i]
<1>1. s \in Seq(Parameters)
  BY SignatureType
<1>2. CASE CreatePipelineLayout(s, any_add) = s
  BY <1>2
<1>3. CASE Extended(s, CreatePipelineLayout(s, any_add))
  <2>1. PICK r : r = CreatePipelineLayout(s, any_add)
    OBVIOUS
  <2>2. PICK k : k = InsertionIndex(s)
    OBVIOUS
  <2>3. /\ r \in Seq(Parameters) /\ Len(r) = Len(s) + Len(InjectedRanges)
        /\ \A j \in 1..(k - 1) : r[j] = s[j]
    BY <1>3, <2>1, <2>2 DEF Extended
  <2>4. k \in 1..(Len(s) + 1) /\ (k <= Len(s) => StaticOnly(s[k]))
    BY <1>1, <2>2, InsertionIndexIs
  <2>5. /\ i \in 1..Len(s) /\ Roots(s)[i] = s[i] /\ \A j \in 1..i : ~ StaticOnly(s[j])
    BY <1>1, RootsAre
  <2>6. i < k
    BY <2>4, <2>5
  <2>7. ASSUME NEW j \in 1..i PROVE r[j] = s[j] /\ ~ StaticOnly(s[j])
    <3>1. j \in 1..(k - 1)
      BY <2>4, <2>5, <2>6
    <3>2. QED
      BY <2>3, <2>5, <3>1
  <2>8. i \in 1..Len(r)
    <3>1. Len(s) \in Nat /\ Len(InjectedRanges) \in Nat
      BY <1>1, InjectedRangesAre
    <3>2. QED
      BY <2>3, <2>5, <3>1
  <2>9. \A j \in 1..i : ~ StaticOnly(r[j])
    BY <2>7
  <2>10. i \in DOMAIN Roots(r) /\ Roots(r)[i] = r[i]
    BY <2>3, <2>8, <2>9, RootsAre
  <2>11. r[i] = s[i]
    BY <2>5, <2>7
  <2>12. QED
    BY <2>1, <2>5, <2>10, <2>11
<1>4. QED
  BY <1>1, <1>2, <1>3, CreatedLayout

(* A push of the layout that was created is in front of its static         *)
(* samplers.                                                               *)
LEMMA PushesAreRoots ==
  ASSUME NEW l \in Layouts, NEW s \in Signatures[l], NEW any_add \in BOOLEAN, NEW r,
         r = CreatePipelineLayout(s, any_add),
         NEW i \in 1..Len(r), r[i].kind = "push"
  PROVE  /\ r \in Seq(Parameters) /\ i \in DOMAIN Roots(r) /\ Roots(r)[i] = r[i]
         /\ r[i] = InjectedParam(Head(r[i].ranges))
<1>1. /\ s \in Seq(Parameters)
      /\ \A j \in 1..Len(s) : s[j].kind = "push" => s[j] = InjectedParam(Head(s[j].ranges))
      /\ \A j, k \in 1..Len(s) : StaticOnly(s[j]) /\ j <= k => s[k].kind # "push"
  BY SignatureType
<1>2. CASE r = s
  <2>1. \A j \in 1..i : ~ StaticOnly(s[j])
    BY <1>1, <1>2
  <2>2. QED
    BY <1>1, <1>2, <2>1, RootsAre
<1>3. CASE Extended(s, r)
  <2>1. PICK k : k = InsertionIndex(s)
    OBVIOUS
  <2>2. PICK m : m = Len(InjectedRanges)
    OBVIOUS
  <2>3. /\ r \in Seq(Parameters) /\ Len(r) = Len(s) + m
        /\ \A j \in 1..(k - 1) : r[j] = s[j]
        /\ \A j \in 1..m : r[k - 1 + j] = InjectedParam(InjectedRanges[j])
        /\ \A j \in k..Len(s) : r[j + m] = s[j]
    BY <1>3, <2>1, <2>2 DEF Extended
  <2>4. /\ k \in 1..(Len(s) + 1) /\ (k <= Len(s) => StaticOnly(s[k]))
        /\ \A j \in 1..(k - 1) : ~ StaticOnly(s[j])
    BY <1>1, <2>1, InsertionIndexIs
  <2>5. m \in Nat /\ Len(s) \in Nat /\ Len(r) \in Nat /\ i \in Nat
    BY <1>1, <2>2, <2>3, InjectedRangesAre
  <2>6. i < k + m
    <3>1. SUFFICES ASSUME i >= k + m PROVE FALSE
      BY <2>4, <2>5
    <3>2. i - m \in k..Len(s) /\ i - m + m = i
      BY <2>3, <2>4, <2>5, <3>1
    <3>3. r[i] = s[i - m]
      BY <2>3, <3>2
    <3>4. k \in 1..Len(s) /\ i - m \in 1..Len(s) /\ k <= i - m
      BY <2>4, <2>5, <3>2
    <3>5. QED
      BY <1>1, <2>4, <3>3, <3>4
  <2>7. \A j \in 1..(k - 1 + m) : j <= k - 1 \/ (j - (k - 1) \in 1..m /\ k - 1 + (j - (k - 1)) = j)
    BY <2>4, <2>5
  <2>8. \A j \in 1..(k - 1 + m) : ~ StaticOnly(r[j])
    <3>1. TAKE j \in 1..(k - 1 + m)
    <3>2. CASE j <= k - 1
      BY <2>3, <2>4, <3>2
    <3>3. CASE j - (k - 1) \in 1..m /\ k - 1 + (j - (k - 1)) = j
      BY <2>3, <3>3, PushNotStatic
    <3>4. QED
      BY <2>7, <3>2, <3>3
  <2>9. \A j \in 1..i : j \in 1..(k - 1 + m)
    BY <2>4, <2>5, <2>6
  <2>10. i \in DOMAIN Roots(r) /\ Roots(r)[i] = r[i]
    BY <2>3, <2>8, <2>9, RootsAre
  <2>11. r[i] = InjectedParam(Head(r[i].ranges))
    <3>1. i \in 1..(k - 1 + m)
      BY <2>4, <2>5, <2>6
    <3>2. CASE i <= k - 1
      <4>1. i \in 1..(k - 1) /\ i \in 1..Len(s)
        BY <2>4, <2>5, <3>2
      <4>2. QED
        BY <1>1, <2>3, <4>1
    <3>3. CASE i - (k - 1) \in 1..m /\ k - 1 + (i - (k - 1)) = i
      BY <2>3, <3>3, PushNotStatic
    <3>4. QED
      BY <2>7, <3>1, <3>2, <3>3
  <2>12. QED
    BY <2>3, <2>10, <2>11
<1>4. QED
  BY <1>1, <1>2, <1>3, CreatedLayout

(* What OnInitPipelineLayout finds for a class is the table of that class. *)
LEMMA FoundAreOurs ==
  ASSUME NEW l \in Layouts, NEW s \in Signatures[l], NEW any_add \in BOOLEAN, NEW r,
         r = CreatePipelineLayout(s, any_add),
         NEW class \in Range(Classes), FindInjection(r)[class] # 0
  PROVE  /\ FindInjection(r)[class] \in DOMAIN Roots(r)
         /\ Roots(r)[FindInjection(r)[class]] = InjectedParam(InjectedRange(class))
<1> DEFINE S == {i \in DOMAIN r : /\ r[i].kind = "push"
                                /\ Head(r[i].ranges) = InjectedRange(class)
                                /\ Injected[class].count # 0}
<1>1. r \in Seq(Parameters)
  <2>1. s \in Seq(Parameters)
    BY SignatureType
  <2>2. QED
    BY <2>1, CreatedLayout DEF Extended
<1>2. PICK n \in Nat : n = Len(r) /\ DOMAIN r = 1..n
  BY <1>1
<1>3. S \cup {0} \in SUBSET (0..n) /\ S \cup {0} # {}
  BY <1>2
<1>4. Max(S \cup {0}) \in S \cup {0}
  BY <1>3, MaxOf
<1>5. FindInjection(r)[class] = Max(S \cup {0})
  BY DEF FindInjection
<1>6. PICK i \in S : i = FindInjection(r)[class]
  BY <1>4, <1>5
<1>7. i \in 1..Len(r) /\ r[i].kind = "push" /\ Head(r[i].ranges) = InjectedRange(class)
  BY <1>2, <1>6
<1>8. i \in DOMAIN Roots(r) /\ Roots(r)[i] = r[i] /\ r[i] = InjectedParam(Head(r[i].ranges))
  BY <1>7, PushesAreRoots
<1>9. QED
  BY <1>6, <1>7, <1>8

-----------------------------------------------------------------------------
(* The invariant: the layouts, what is published, and the list.            *)

(* A handle is a number to the code: no function, and so no record.  It is *)
(* what tells a replacement (a record, here) from a pipeline of the game.  *)
Atom(x) == x # [i \in DOMAIN x |-> x[i]]
HandlesAreAtoms == \A x \in Pipelines \cup Tables \cup {Null} : Atom(x)

(* Root parameter i of the layout is a push; it is a table of the game's.  *)
PushAt(l, i) ==
  i \in DOMAIN Roots(layouts[l].real) /\ Roots(layouts[l].real)[i].kind = "push"
TableAt(l, i) ==
  i \in DOMAIN Roots(layouts[l].game) /\ Roots(layouts[l].game)[i].kind = "table"

(* A replacement whose pipeline exists and whose tables are pushes of its  *)
(* root signature.                                                         *)
Installed(r) ==
  /\ r = [pipeline |-> r.pipeline, wants |-> r.wants, bindings |-> r.bindings]
  /\ r.pipeline \in pipelines
  /\ \A b \in r.bindings : PushAt(LayoutOf[r.pipeline], b.param)
  /\ r.bindings # {} => any_bindings

(* Every layout was created from parameters of the game.                   *)
LayoutsBuilt ==
  /\ layouts = [l \in Layouts |-> layouts[l]]
  /\ \A l \in Layouts : layouts[l] # Null =>
       \E s \in Signatures[l], any_add \in BOOLEAN :
         layouts[l] = [game |-> s, real |-> CreatePipelineLayout(s, any_add)]

(* state.layouts has what OnInitPipelineLayout found, of layouts that      *)
(* exist.                                                                  *)
InjectionsFound ==
  /\ injections = [l \in DOMAIN injections |-> injections[l]]
  /\ DOMAIN injections \subseteq Layouts
  /\ \A l \in DOMAIN injections :
       layouts[l] # Null /\ injections[l] = FindInjection(layouts[l].real)

(* A pipeline keeps its root signature alive.                              *)
PipelinesHaveLayouts ==
  /\ pipelines \subseteq Pipelines
  /\ \A p \in pipelines : layouts[LayoutOf[p]] # Null

(* What is published is a replacement of that pipeline; with bindings only *)
(* once g_any_bindings is set.                                             *)
PublishedInstalled ==
  /\ published = [p \in Pipelines |-> published[p]]
  /\ any_bindings \in BOOLEAN
  /\ \A p \in Pipelines :
       published[p] # Null => Installed(published[p]) /\ published[p].pipeline = p

(* The list is a list.                                                     *)
ListType(L) ==
  /\ L = [pipe |-> L.pipe, root |-> L.root, args |-> L.args, heaps |-> L.heaps,
          pending |-> L.pending, heaps_dirty |-> L.heaps_dirty,
          last_table |-> L.last_table, current_layout |-> L.current_layout]
  /\ L.root \in [BindPoints -> Layouts \cup {Null}]
  /\ L.args = [t \in BindPoints |-> [i \in Params |-> L.args[t][i]]]
  /\ L.heaps \in {"game", "reshade", Null}
  /\ L.pending = [repl |-> L.pending.repl, swapped |-> L.pending.swapped]
  /\ L.pending.swapped \in BOOLEAN /\ L.heaps_dirty \in BOOLEAN
  /\ L.last_table = [t \in BindPoints |-> L.last_table[t]]
  /\ L.current_layout \in [BindPoints -> Layouts \cup {Null}]

(* pending tells what is bound: the replacement if it was swapped in, the  *)
(* game's pipeline if not.                                                 *)
PendingInstalled(L) ==
  IF L.pending.repl = Null
    THEN L.pipe \in pipelines \cup {Null} /\ ~ L.pending.swapped
    ELSE /\ Installed(L.pending.repl)
         /\ L.pipe = IF L.pending.swapped THEN L.pending.repl ELSE L.pending.repl.pipeline

(* A root signature that is set exists.                                    *)
RootsExist(L) == \A t \in BindPoints : L.root[t] # Null => layouts[L.root[t]] # Null

(* The game's tables lie at the game's table parameters.                   *)
TablesAtTables(L) ==
  \A t \in BindPoints : \A i \in Params :
    L.args[t][i] \in Tables => L.root[t] # Null /\ TableAt(L.root[t], i)

(* The table that was bound last is still where the game bound it.         *)
LastInPlace(L) ==
  \A t \in BindPoints :
    L.last_table[t].table # Null /\ L.last_table[t].param \in Params =>
      L.args[t][L.last_table[t].param] = L.last_table[t].table

(* And it is of the root signature that is set: nobody's push lies over    *)
(* it.                                                                     *)
LastTableBound(L) ==
  \A t \in BindPoints : L.last_table[t].table # Null =>
    /\ any_bindings
    /\ L.root[t] # Null /\ L.last_table[t].layout = L.root[t]
    /\ L.current_layout[t] = L.root[t]
    /\ TableAt(L.root[t], L.last_table[t].param)

ListOK(L) ==
  /\ ListType(L) /\ PendingInstalled(L) /\ RootsExist(L) /\ TablesAtTables(L)
  /\ LastInPlace(L) /\ LastTableBound(L)

DeviceOK == LayoutsBuilt /\ InjectionsFound /\ PipelinesHaveLayouts /\ PublishedInstalled

(* The inductive invariant of the device and its list.                     *)
LInv == DeviceOK /\ ListOK(list)

(* There are two bind points.                                              *)
LEMMA PointsTwo ==
  BindPoints = {"graphics", "compute"} /\ \A t \in BindPoints : Other(t) \in BindPoints
BY DEF BindPoints, Other

(* A function, and a record with it, is no handle.                         *)
LEMMA AtomsApart ==
  ASSUME HandlesAreAtoms, NEW f, f = [i \in DOMAIN f |-> f[i]]
  PROVE  f \notin Pipelines \cup Tables \cup {Null}
BY DEF HandlesAreAtoms, Atom

(* A table of the game is not at a place where the layout has a push.      *)
LEMMA LayoutFacts ==
  ASSUME LayoutsBuilt, HandlesAreAtoms, NEW l \in Layouts, layouts[l] # Null
  PROVE  \A i : TableAt(l, i) => ~ PushAt(l, i)
<1>1. PICK s \in Signatures[l], any_add \in BOOLEAN :
        layouts[l] = [game |-> s, real |-> CreatePipelineLayout(s, any_add)]
  BY DEF LayoutsBuilt
<1>2. layouts[l].game = s /\ layouts[l].real = CreatePipelineLayout(s, any_add)
  BY <1>1
<1>3. QED
  BY <1>2, GameRootsKept DEF TableAt, PushAt

(* The index that is known for a class is that of its table.               *)
LEMMA InjectedFacts ==
  ASSUME LayoutsBuilt, InjectionsFound, NEW l \in DOMAIN injections,
         NEW class \in Range(Classes), injections[l][class] # 0
  PROVE  /\ injections[l][class] \in DOMAIN Roots(layouts[l].real)
         /\ Roots(layouts[l].real)[injections[l][class]] = InjectedParam(InjectedRange(class))
         /\ PushAt(l, injections[l][class])
<1>1. l \in Layouts /\ layouts[l] # Null /\ injections[l] = FindInjection(layouts[l].real)
  BY DEF InjectionsFound
<1>2. PICK s \in Signatures[l], any_add \in BOOLEAN :
        layouts[l] = [game |-> s, real |-> CreatePipelineLayout(s, any_add)]
  BY <1>1 DEF LayoutsBuilt
<1>3. layouts[l].real = CreatePipelineLayout(s, any_add)
  BY <1>2
<1>4. /\ injections[l][class] \in DOMAIN Roots(layouts[l].real)
      /\ Roots(layouts[l].real)[injections[l][class]] = InjectedParam(InjectedRange(class))
  BY <1>1, <1>3, FoundAreOurs
<1>5. QED
  BY <1>4, PushNotStatic DEF PushAt

(* The part of the invariant that is about layouts gives IndicesKept.      *)
LEMMA IndicesAreKept ==
  ASSUME LayoutsBuilt, InjectionsFound
  PROVE  IndicesKept
<1>1. ASSUME NEW l \in Layouts, layouts[l] # Null, NEW i \in DOMAIN Roots(layouts[l].game)
      PROVE  /\ i \in DOMAIN Roots(layouts[l].real)
             /\ Roots(layouts[l].real)[i] = Roots(layouts[l].game)[i]
  <2>1. PICK s \in Signatures[l], any_add \in BOOLEAN :
          layouts[l] = [game |-> s, real |-> CreatePipelineLayout(s, any_add)]
    BY <1>1 DEF LayoutsBuilt
  <2>2. layouts[l].game = s /\ layouts[l].real = CreatePipelineLayout(s, any_add)
    BY <2>1
  <2>3. QED
    BY <1>1, <2>2, GameRootsKept
<1>2. ASSUME NEW l \in DOMAIN injections PROVE layouts[l] # Null
  BY DEF InjectionsFound
<1>3. QED
  BY <1>1, <1>2, InjectedFacts DEF IndicesKept

(* The pipeline of the game behind what is bound, and when a replacement   *)
(* is bound.                                                               *)
LEMMA GamePipeOf ==
  ASSUME HandlesAreAtoms, PipelinesHaveLayouts, NEW L, PendingInstalled(L)
  PROVE  /\ L.pending.repl # Null => GamePipe(L.pipe) = L.pending.repl.pipeline
         /\ L.pipe # Null => GamePipe(L.pipe) \in pipelines
         /\ L.pending.repl = Null \/ ~ L.pending.swapped => ~ IsReplacement(L.pipe)
         /\ L.pending.repl # Null => IsReplacement(L.pending.repl)
         /\ GamePipe(Null) = Null /\ \A p \in Pipelines : GamePipe(p) = p
<1>1. GamePipe(Null) = Null /\ \A p \in Pipelines : GamePipe(p) = p /\ ~ IsReplacement(p)
  BY DEF GamePipe, IsReplacement
<1>2. CASE L.pending.repl = Null
  BY <1>1, <1>2 DEF PendingInstalled, PipelinesHaveLayouts, IsReplacement
<1>3. CASE L.pending.repl # Null
  <2>1. PICK r : r = L.pending.repl
    OBVIOUS
  <2>2. /\ r = [pipeline |-> r.pipeline, wants |-> r.wants, bindings |-> r.bindings]
        /\ r.pipeline \in pipelines
        /\ L.pipe = IF L.pending.swapped THEN r ELSE r.pipeline
    BY <1>3, <2>1 DEF PendingInstalled, Installed
  <2>3. r = [i \in DOMAIN r |-> r[i]]
    BY <2>2
  <2>4. IsReplacement(r)
    BY <2>3, AtomsApart DEF IsReplacement
  <2>5. GamePipe(r) = r.pipeline
    BY <2>4 DEF GamePipe
  <2>6. r.pipeline \in Pipelines
    BY <2>2 DEF PipelinesHaveLayouts
  <2>7. QED
    BY <1>1, <1>3, <2>1, <2>2, <2>4, <2>5, <2>6
<1>4. QED
  BY <1>2, <1>3

(* What RestoreHeaps comes to.                                             *)
Reheaped(L) == [L EXCEPT !.heaps = "game", !.heaps_dirty = FALSE]

(* RestoreHeaps binds what was bound: all it changes is the heaps.         *)
LEMMA RestoreHeapsIs ==
  ASSUME NEW L, ListType(L), LastInPlace(L), NEW preferred \in BindPoints
  PROVE  \/ /\ RestoreHeaps(L, preferred) = L
            /\ \A t \in BindPoints : ~ (/\ L.last_table[t].table # Null
                                       /\ L.last_table[t].layout = L.current_layout[t])
         \/ RestoreHeaps(L, preferred) = Reheaped(L)
<1> DEFINE usable == {t \in BindPoints : /\ L.last_table[t].table # Null
                                      /\ L.last_table[t].layout = L.current_layout[t]}
<1> DEFINE t == IF preferred \in usable THEN preferred ELSE Other(preferred)
<1>1. CASE usable = {}
  BY <1>1 DEF RestoreHeaps
<1>2. CASE usable # {}
  <2>1. PICK u : u = t
    OBVIOUS
  <2>2. u \in BindPoints /\ L.last_table[u].table # Null
    BY <1>2, <2>1, PointsTwo DEF Other
  <2>3. PICK q, h : q = L.last_table[u].param /\ h = L.last_table[u].table
    OBVIOUS
  <2>4. RestoreHeaps(L, preferred) =
          [L EXCEPT !.args[u][q] = h, !.heaps = "game", !.heaps_dirty = FALSE]
    BY <1>2, <2>1, <2>3 DEF RestoreHeaps
  <2>5. PICK A : A = L.args
    OBVIOUS
  <2>6. A = [v \in BindPoints |-> [i \in Params |-> A[v][i]]]
    BY <2>5 DEF ListType
  <2>7. [A[u] EXCEPT ![q] = h] = A[u]
    <3>1. A[u] = [i \in Params |-> A[u][i]]
      BY <2>2, <2>6
    <3>2. q \in Params => A[u][q] = h
      BY <2>2, <2>3, <2>5 DEF LastInPlace
    <3>3. QED
      BY <3>1, <3>2
  <2>8. [A EXCEPT ![u] = A[u]] = A
    BY <2>2, <2>6
  <2>9. [A EXCEPT ![u][q] = h] = A
    BY <2>7, <2>8
  <2>10. [L EXCEPT !.args[u][q] = h, !.heaps = "game", !.heaps_dirty = FALSE] = Reheaped(L)
    BY <2>5, <2>9 DEF ListType, Reheaped
  <2>11. QED
    BY <2>4, <2>10
<1>3. QED
  BY <1>1, <1>2

-----------------------------------------------------------------------------
(* The device keeps it.                                                    *)

(* The invariant holds of a new device and an empty list.                  *)
LEMMA LInit == ASSUME HandlesAreAtoms, Init PROVE LInv
<1>1. DeviceOK
  <2>1. DOMAIN << >> = {} /\ << >> = [i \in DOMAIN << >> |-> << >>[i]]
    OBVIOUS
  <2>2. InjectionsFound
    BY <2>1 DEF Init, InjectionsFound
  <2>3. LayoutsBuilt /\ PipelinesHaveLayouts /\ PublishedInstalled
    BY DEF Init, LayoutsBuilt, PipelinesHaveLayouts, PublishedInstalled
  <2>4. QED
    BY <2>2, <2>3 DEF DeviceOK
<1>2. ListType(EmptyList) /\ PendingInstalled(EmptyList) /\ RootsExist(EmptyList)
  BY DEF Init, EmptyList, NoPending, NoTable, ListType, PendingInstalled, RootsExist,
     BindPoints
<1>3. TablesAtTables(EmptyList) /\ LastInPlace(EmptyList) /\ LastTableBound(EmptyList)
  BY D3D12Assumption DEF EmptyList, NoTable, TablesAtTables, LastInPlace, LastTableBound
<1>4. QED
  BY <1>1, <1>2, <1>3 DEF Init, LInv, ListOK

(* A replacement stays good while its pipeline and root signature do.      *)
LEMMA InstalledStays ==
  ASSUME NEW r, Installed(r), r.pipeline \in pipelines',
         layouts'[LayoutOf[r.pipeline]] = layouts[LayoutOf[r.pipeline]],
         any_bindings => any_bindings'
  PROVE  Installed(r)'
BY DEF Installed, PushAt

(* A list whose pipeline and root signatures stay, stays good.             *)
LEMMA ListStays ==
  ASSUME HandlesAreAtoms, PipelinesHaveLayouts, ListOK(list), list' = list,
         any_bindings => any_bindings',
         \A l \in Layouts : layouts[l] # Null /\ (\E t \in BindPoints : list.root[t] = l) =>
           layouts'[l] = layouts[l],
         \A p \in pipelines : p = GamePipe(list.pipe) =>
           p \in pipelines' /\ layouts'[LayoutOf[p]] = layouts[LayoutOf[p]]
  PROVE  ListOK(list)'
<1>1. ListType(list)'
  BY DEF ListOK, ListType
<1>2. PendingInstalled(list)'
  <2>1. CASE list.pending.repl = Null
    <3>1. list.pipe \in pipelines \cup {Null} /\ ~ list.pending.swapped
      BY <2>1 DEF ListOK, PendingInstalled
    <3>2. list.pipe # Null => list.pipe = GamePipe(list.pipe)
      BY <3>1, GamePipeOf DEF PipelinesHaveLayouts, ListOK
    <3>3. list.pipe \in pipelines' \cup {Null}
      BY <3>1, <3>2
    <3>4. QED
      BY <2>1, <3>1, <3>3 DEF PendingInstalled
  <2>2. CASE list.pending.repl # Null
    <3>1. Installed(list.pending.repl)
      BY <2>2 DEF ListOK, PendingInstalled
    <3>2. list.pending.repl.pipeline = GamePipe(list.pipe)
      BY <2>2, GamePipeOf DEF ListOK
    <3>3. list.pending.repl.pipeline \in pipelines
      BY <3>1 DEF Installed
    <3>4. Installed(list.pending.repl)'
      <4>1. PICK r : r = list.pending.repl
        OBVIOUS
      <4>2. Installed(r) /\ r.pipeline \in pipelines'
            /\ layouts'[LayoutOf[r.pipeline]] = layouts[LayoutOf[r.pipeline]]
        BY <3>1, <3>2, <3>3, <4>1
      <4>3. Installed(r)'
        BY <4>2, InstalledStays
      <4>4. QED
        BY <4>1, <4>3 DEF Installed, PushAt
    <3>5. QED
      BY <2>2, <3>4 DEF ListOK, PendingInstalled
  <2>3. QED
    BY <2>1, <2>2
<1>3. \A t \in BindPoints : list.root[t] # Null =>
        list.root[t] \in Layouts /\ layouts[list.root[t]] # Null
        /\ layouts'[list.root[t]] = layouts[list.root[t]]
  BY DEF ListOK, ListType, RootsExist
<1>4. RootsExist(list)'
  BY <1>3 DEF RootsExist
<1>5. TablesAtTables(list)'
  BY <1>3 DEF ListOK, TablesAtTables, TableAt
<1>6. LastInPlace(list)'
  BY DEF ListOK, LastInPlace
<1>7. LastTableBound(list)'
  BY <1>3 DEF ListOK, LastTableBound, TableAt
<1>8. QED
  BY <1>1, <1>2, <1>4, <1>5, <1>6, <1>7 DEF ListOK

(* What is published stays good while the pipelines and their root         *)
(* signatures do.                                                          *)
LEMMA PublishedStays ==
  ASSUME PublishedInstalled, published' = published, UNCHANGED any_bindings,
         \A p \in Pipelines : published[p] # Null =>
           p \in pipelines' /\ layouts'[LayoutOf[p]] = layouts[LayoutOf[p]]
  PROVE  PublishedInstalled'
<1>1. ASSUME NEW p \in Pipelines, published[p] # Null
      PROVE  Installed(published[p])' /\ published[p].pipeline = p
  <2>1. PICK r : r = published[p]
    OBVIOUS
  <2>2. Installed(r) /\ r.pipeline = p
    BY <1>1, <2>1 DEF PublishedInstalled
  <2>3. Installed(r)'
    BY <1>1, <2>2, InstalledStays
  <2>4. QED
    BY <2>1, <2>2, <2>3 DEF Installed, PushAt
<1>2. QED
  BY <1>1 DEF PublishedInstalled

(* A pipeline with a replacement exists.                                   *)
LEMMA PublishedAlive ==
  ASSUME PublishedInstalled, NEW p \in Pipelines, published[p] # Null
  PROVE  p \in pipelines
BY DEF PublishedInstalled, Installed

(* OnCreatePipelineLayout and OnInitPipelineLayout keep the invariant.     *)
LEMMA CreateLayoutInv ==
  ASSUME HandlesAreAtoms, LInv, NEW l \in Layouts, NEW any_add \in BOOLEAN,
         NEW s \in Signatures[l], CreateLayout(l, s, any_add)
  PROVE  LInv'
<1> DEFINE real == CreatePipelineLayout(s, any_add)
<1>1. PICK new : new = [game |-> s, real |-> real]
  OBVIOUS
<1>2. new # Null
  BY <1>1, AtomsApart
<1>3. /\ layouts[l] = Null /\ layouts' = [layouts EXCEPT ![l] = new]
      /\ UNCHANGED <<pipelines, published, any_bindings, list, call>>
      /\ \/ injections' = injections
         \/ injections' = [k \in DOMAIN injections \cup {l} |->
                            IF k = l THEN FindInjection(real) ELSE injections[k]]
  BY <1>1 DEF CreateLayout
<1>4. /\ layouts'[l] = new
      /\ \A k \in Layouts : k # l => layouts'[k] = layouts[k]
      /\ \A k \in Layouts : layouts[k] # Null => layouts'[k] = layouts[k]
  BY <1>3 DEF LInv, DeviceOK, LayoutsBuilt
<1>5. LayoutsBuilt'
  <2>1. layouts' = [k \in Layouts |-> layouts'[k]]
    BY <1>3 DEF LInv, DeviceOK, LayoutsBuilt
  <2>2. ASSUME NEW k \in Layouts, layouts'[k] # Null
        PROVE  \E z \in Signatures[k], a \in BOOLEAN :
                 layouts'[k] = [game |-> z, real |-> CreatePipelineLayout(z, a)]
    <3>1. CASE k = l
      BY <1>1, <1>4, <3>1
    <3>2. CASE k # l
      BY <1>4, <2>2, <3>2 DEF LInv, DeviceOK, LayoutsBuilt
    <3>3. QED
      BY <3>1, <3>2
  <2>3. QED
    BY <2>1, <2>2 DEF LayoutsBuilt
<1>6. InjectionsFound'
  <2>1. CASE injections' = injections
    BY <1>3, <1>4, <2>1 DEF LInv, DeviceOK, InjectionsFound
  <2>2. CASE injections' = [k \in DOMAIN injections \cup {l} |->
                            IF k = l THEN FindInjection(real) ELSE injections[k]]
    <3>1. layouts'[l].real = real /\ layouts'[l] # Null
      BY <1>1, <1>2, <1>4
    <3>2. QED
      BY <1>4, <2>2, <3>1 DEF LInv, DeviceOK, InjectionsFound
  <2>3. QED
    BY <1>3, <2>1, <2>2
<1>7. PipelinesHaveLayouts'
  BY <1>3, <1>4, D3D12Assumption DEF LInv, DeviceOK, PipelinesHaveLayouts
<1>8. \A p \in pipelines : layouts'[LayoutOf[p]] = layouts[LayoutOf[p]]
  BY <1>4, D3D12Assumption DEF LInv, DeviceOK, PipelinesHaveLayouts
<1>9. PublishedInstalled'
  BY <1>3, <1>8, PublishedAlive, PublishedStays DEF LInv, DeviceOK
<1>10. ListOK(list)'
  BY <1>3, <1>4, <1>8, ListStays DEF LInv, DeviceOK
<1>11. QED
  BY <1>5, <1>6, <1>7, <1>9, <1>10 DEF LInv, DeviceOK

(* OnDestroyPipelineLayout keeps the invariant.                            *)
LEMMA DestroyLayoutInv ==
  ASSUME HandlesAreAtoms, LInv, NEW l \in Layouts, DestroyLayout(l)
  PROVE  LInv'
<1>1. /\ \A p \in pipelines : LayoutOf[p] # l
      /\ \A t \in BindPoints : list.root[t] # l
      /\ layouts' = [layouts EXCEPT ![l] = Null]
      /\ injections' = [k \in DOMAIN injections \ {l} |-> injections[k]]
      /\ UNCHANGED <<pipelines, published, any_bindings, list, call>>
  BY DEF DestroyLayout, ForgetLayout
<1>2. /\ layouts'[l] = Null
      /\ \A k \in Layouts : k # l => layouts'[k] = layouts[k]
  BY <1>1 DEF LInv, DeviceOK, LayoutsBuilt
<1>3. LayoutsBuilt'
  BY <1>1, <1>2 DEF LInv, DeviceOK, LayoutsBuilt
<1>4. InjectionsFound'
  BY <1>1, <1>2 DEF LInv, DeviceOK, InjectionsFound
<1>5. PipelinesHaveLayouts'
  BY <1>1, <1>2, D3D12Assumption DEF LInv, DeviceOK, PipelinesHaveLayouts
<1>6. \A p \in pipelines : layouts'[LayoutOf[p]] = layouts[LayoutOf[p]]
  BY <1>1, <1>2, D3D12Assumption DEF LInv, DeviceOK, PipelinesHaveLayouts
<1>7. PublishedInstalled'
  BY <1>1, <1>6, PublishedAlive, PublishedStays DEF LInv, DeviceOK
<1>8. ListOK(list)'
  BY <1>1, <1>2, <1>6, ListStays DEF LInv, DeviceOK
<1>9. QED
  BY <1>3, <1>4, <1>5, <1>7, <1>8 DEF LInv, DeviceOK

(* A new pipeline keeps the invariant.                                     *)
LEMMA CreatePipelineInv ==
  ASSUME HandlesAreAtoms, LInv, NEW p \in Pipelines, CreatePipeline(p)
  PROVE  LInv'
<1>1. /\ layouts[LayoutOf[p]] # Null /\ pipelines' = pipelines \cup {p}
      /\ UNCHANGED <<layouts, injections, published, any_bindings, list, call>>
  BY DEF CreatePipeline
<1>2. LayoutsBuilt' /\ InjectionsFound' /\ PipelinesHaveLayouts'
  BY <1>1 DEF LInv, DeviceOK, LayoutsBuilt, InjectionsFound, PipelinesHaveLayouts
<1>3. PublishedInstalled'
  BY <1>1, PublishedAlive, PublishedStays DEF LInv, DeviceOK
<1>4. ListOK(list)'
  BY <1>1, ListStays DEF LInv, DeviceOK
<1>5. QED
  BY <1>2, <1>3, <1>4 DEF LInv, DeviceOK

(* OnDestroyPipeline keeps the invariant.                                  *)
LEMMA DestroyPipelineInv ==
  ASSUME HandlesAreAtoms, LInv, NEW p \in Pipelines, DestroyPipeline(p)
  PROVE  LInv'
<1>1. /\ GamePipe(list.pipe) # p /\ pipelines' = pipelines \ {p}
      /\ published' = [published EXCEPT ![p] = Null]
      /\ UNCHANGED <<layouts, injections, any_bindings, list, call>>
  BY DEF DestroyPipeline
<1>2. LayoutsBuilt' /\ InjectionsFound' /\ PipelinesHaveLayouts'
  BY <1>1 DEF LInv, DeviceOK, LayoutsBuilt, InjectionsFound, PipelinesHaveLayouts
<1>3. PublishedInstalled'
  <2>1. published' = [q \in Pipelines |-> published'[q]] /\ any_bindings' \in BOOLEAN
    BY <1>1 DEF LInv, DeviceOK, PublishedInstalled
  <2>2. ASSUME NEW q \in Pipelines, published'[q] # Null
        PROVE  Installed(published[q])' /\ published'[q].pipeline = q
    <3>1. q # p /\ published'[q] = published[q]
      BY <1>1, <2>2 DEF LInv, DeviceOK, PublishedInstalled
    <3>2. PICK r : r = published[q]
      OBVIOUS
    <3>3. Installed(r) /\ r.pipeline = q
      BY <2>2, <3>1, <3>2 DEF LInv, DeviceOK, PublishedInstalled
    <3>4. q \in pipelines'
      BY <1>1, <3>1, <3>3 DEF Installed
    <3>5. Installed(r)'
      BY <1>1, <3>3, <3>4, InstalledStays
    <3>6. QED
      BY <3>1, <3>2, <3>3, <3>5 DEF Installed, PushAt
  <2>3. QED
    BY <2>1, <2>2 DEF PublishedInstalled, Installed, PushAt
<1>4. ListOK(list)'
  BY <1>1, ListStays DEF LInv, DeviceOK
<1>5. QED
  BY <1>2, <1>3, <1>4 DEF LInv, DeviceOK

(* The bindings BuildBindings makes lie at tables of the add-on.           *)
LEMMA ReplacementInstalled ==
  ASSUME LInv, NEW p \in pipelines, NEW shaders,
         Merged(shaders) = {} \/ Bindable(LayoutOf[p], Merged(shaders))
  PROVE  /\ Replacement(p, shaders).pipeline = p
         /\ Replacement(p, shaders) = [pipeline |-> Replacement(p, shaders).pipeline,
              wants |-> Replacement(p, shaders).wants,
              bindings |-> Replacement(p, shaders).bindings]
         /\ \A b \in Replacement(p, shaders).bindings : PushAt(LayoutOf[p], b.param)
         /\ Replacement(p, shaders).bindings # {} => Merged(shaders) # {}
<1>1. PICK w : w = Merged(shaders)
  OBVIOUS
<1>2. PICK l : l = LayoutOf[p]
  OBVIOUS
<1>3. PICK r : r = Replacement(p, shaders)
  OBVIOUS
<1>4. /\ r.pipeline = p /\ r.bindings = {DrawBinding(l, b) : b \in w}
      /\ r = [pipeline |-> r.pipeline, wants |-> r.wants, bindings |-> r.bindings]
  BY <1>1, <1>2, <1>3 DEF Replacement
<1>5. ASSUME NEW b \in w PROVE PushAt(l, DrawBinding(l, b).param)
  <2>1. l \in DOMAIN injections /\ ParamOf(l, b) # 0
    BY <1>1, <1>2, <1>5 DEF Bindable
  <2>2. b.type \in Range(Classes) /\ ParamOf(l, b) = injections[l][b.type]
    BY <2>1 DEF ParamOf
  <2>3. PushAt(l, injections[l][b.type])
    BY <2>1, <2>2, InjectedFacts DEF LInv, DeviceOK
  <2>4. QED
    BY <2>2, <2>3 DEF DrawBinding
<1>6. QED
  BY <1>1, <1>2, <1>3, <1>4, <1>5

(* BuildBindings and Publish keep the invariant.                           *)
LEMMA PatchInv ==
  ASSUME HandlesAreAtoms, LInv, NEW p \in Pipelines, NEW shaders, Patch(p, shaders)
  PROVE  LInv'
<1> DEFINE built == Merged(shaders) = {} \/ Bindable(LayoutOf[p], Merged(shaders))
<1>1. PICK new : new = IF built THEN Replacement(p, shaders) ELSE Null
  OBVIOUS
<1>2. /\ p \in pipelines /\ published' = [published EXCEPT ![p] = new]
      /\ any_bindings' = (any_bindings \/ (built /\ Merged(shaders) # {}))
      /\ UNCHANGED <<layouts, injections, pipelines, list, call>>
  BY <1>1 DEF Patch
<1>3. LayoutsBuilt' /\ InjectionsFound' /\ PipelinesHaveLayouts'
  BY <1>2 DEF LInv, DeviceOK, LayoutsBuilt, InjectionsFound, PipelinesHaveLayouts
<1>4. any_bindings' \in BOOLEAN /\ (any_bindings => any_bindings')
  BY <1>2 DEF LInv, DeviceOK, PublishedInstalled
<1>5. new # Null => Installed(new)' /\ new.pipeline = p
  <2>1. SUFFICES ASSUME new # Null PROVE Installed(new)' /\ new.pipeline = p
    OBVIOUS
  <2>2. built /\ new = Replacement(p, shaders)
    BY <1>1, <2>1
  <2>3. /\ new.pipeline = p
        /\ new = [pipeline |-> new.pipeline, wants |-> new.wants, bindings |-> new.bindings]
        /\ \A b \in new.bindings : PushAt(LayoutOf[p], b.param)
        /\ new.bindings # {} => Merged(shaders) # {}
    BY <1>2, <2>2, ReplacementInstalled
  <2>4. new.bindings # {} => any_bindings'
    BY <1>2, <2>2, <2>3
  <2>5. QED
    BY <1>2, <2>3, <2>4 DEF Installed, PushAt
<1>6. PublishedInstalled'
  <2>1. published' = [q \in Pipelines |-> published'[q]]
    BY <1>2 DEF LInv, DeviceOK, PublishedInstalled
  <2>2. ASSUME NEW q \in Pipelines, published'[q] # Null
        PROVE  Installed(published[q])' /\ published'[q].pipeline = q
    <3>1. CASE q = p
      <4>1. published'[q] = new
        BY <1>2, <3>1 DEF LInv, DeviceOK, PublishedInstalled
      <4>2. QED
        BY <1>5, <2>2, <3>1, <4>1 DEF Installed, PushAt
    <3>2. CASE q # p
      <4>1. published'[q] = published[q]
        BY <1>2, <3>2 DEF LInv, DeviceOK, PublishedInstalled
      <4>2. PICK r : r = published[q]
        OBVIOUS
      <4>3. Installed(r) /\ r.pipeline = q
        BY <2>2, <4>1, <4>2 DEF LInv, DeviceOK, PublishedInstalled
      <4>4. Installed(r)'
        <5>1. r.pipeline \in pipelines'
          BY <1>2, <4>3 DEF Installed
        <5>2. QED
          BY <1>2, <1>4, <4>3, <5>1, InstalledStays
      <4>5. QED
        BY <4>1, <4>2, <4>3, <4>4 DEF Installed, PushAt
    <3>3. QED
      BY <3>1, <3>2
  <2>3. QED
    BY <1>4, <2>1, <2>2 DEF PublishedInstalled, Installed, PushAt
<1>7. ListOK(list)'
  BY <1>2, <1>4, ListStays DEF LInv, DeviceOK
<1>8. QED
  BY <1>3, <1>6, <1>7 DEF LInv, DeviceOK

(* A publish of nothing keeps the invariant.                               *)
LEMMA UnpatchInv ==
  ASSUME HandlesAreAtoms, LInv, NEW p \in Pipelines, Unpatch(p)
  PROVE  LInv'
<1>1. /\ published' = [published EXCEPT ![p] = Null]
      /\ UNCHANGED <<layouts, injections, pipelines, any_bindings, list, call>>
  BY DEF Unpatch
<1>2. LayoutsBuilt' /\ InjectionsFound' /\ PipelinesHaveLayouts'
  BY <1>1 DEF LInv, DeviceOK, LayoutsBuilt, InjectionsFound, PipelinesHaveLayouts
<1>3. PublishedInstalled'
  <2>1. PublishedInstalled
    BY DEF LInv, DeviceOK
  <2>2. ASSUME NEW q \in Pipelines, published'[q] # Null
        PROVE  published'[q] = published[q]
    BY <1>1, <2>1, <2>2 DEF PublishedInstalled
  <2>3. ASSUME NEW q \in Pipelines, published'[q] # Null
        PROVE  Installed(published[q])' /\ published'[q].pipeline = q
    <3>1. PICK r : r = published[q]
      OBVIOUS
    <3>2. Installed(r) /\ r.pipeline = q
      BY <2>1, <2>2, <2>3, <3>1 DEF PublishedInstalled
    <3>3. Installed(r)'
      BY <1>1, <3>2 DEF Installed, PushAt
    <3>4. QED
      BY <2>2, <2>3, <3>1, <3>2, <3>3 DEF Installed, PushAt
  <2>4. QED
    BY <1>1, <2>1, <2>3 DEF PublishedInstalled
<1>4. ListOK(list)'
  BY <1>1, ListStays DEF LInv, DeviceOK
<1>5. QED
  BY <1>2, <1>3, <1>4 DEF LInv, DeviceOK

-----------------------------------------------------------------------------
(* The list keeps it.                                                      *)

(* A step of the list leaves what the invariant asks of the device.        *)
LEMMA ListCarries ==
  ASSUME UNCHANGED device, ListOK(list')
  PROVE  ListOK(list)'
<1>1. /\ layouts' = layouts /\ pipelines' = pipelines /\ any_bindings' = any_bindings
  BY DEF device
<1>2. PendingInstalled(list)'
  BY <1>1 DEF ListOK, PendingInstalled, Installed, PushAt
<1>3. RootsExist(list)' /\ LastInPlace(list)' /\ ListType(list)'
  BY <1>1 DEF ListOK, RootsExist, LastInPlace, ListType
<1>4. TablesAtTables(list)' /\ LastTableBound(list)'
  BY <1>1 DEF ListOK, TablesAtTables, LastTableBound, TableAt
<1>5. QED
  BY <1>2, <1>3, <1>4 DEF ListOK

(* The device's part of the invariant stays with the device.               *)
LEMMA DeviceCarries == ASSUME UNCHANGED device, DeviceOK PROVE DeviceOK'
BY DEF device, DeviceOK, LayoutsBuilt, InjectionsFound, PipelinesHaveLayouts,
   PublishedInstalled,
   Installed, PushAt

(* A list that gets the game's heaps stays good.                           *)
LEMMA ReheapedOK ==
  ASSUME NEW L, ListOK(L)
  PROVE  /\ ListOK(Reheaped(L))
         /\ Reheaped(L).pipe = L.pipe /\ Reheaped(L).root = L.root /\ Reheaped(L).args = L.args
         /\ Reheaped(L).last_table = L.last_table /\ Reheaped(L).heaps = "game"
         /\ Reheaped(L).heaps_dirty = FALSE /\ Reheaped(L).pending = L.pending
<1>1. PICK N : N = Reheaped(L)
  OBVIOUS
<1>2. /\ N = [pipe |-> L.pipe, root |-> L.root, args |-> L.args, heaps |-> "game",
              pending |-> L.pending, heaps_dirty |-> FALSE,
              last_table |-> L.last_table, current_layout |-> L.current_layout]
  BY <1>1 DEF ListOK, ListType, Reheaped
<1>3. ListType(N)
  BY <1>2 DEF ListOK, ListType
<1>4. PendingInstalled(N) /\ RootsExist(N) /\ TablesAtTables(N) /\ LastInPlace(N) /\ LastTableBound(N)
  BY <1>2 DEF ListOK, PendingInstalled, RootsExist, TablesAtTables, LastInPlace,
     LastTableBound
<1>5. QED
  BY <1>1, <1>2, <1>3, <1>4 DEF ListOK

(* OnBindPipeline: a good list, with the pipeline of the game bound and    *)
(* nothing else touched.                                                   *)
LEMMA BindPipelineOK ==
  ASSUME HandlesAreAtoms, LInv, NEW p \in Pipelines, NEW enabled \in BOOLEAN,
         BindPipeline(p, enabled)
  PROVE  /\ ListOK(list') /\ UNCHANGED device
         /\ list'.pipe = p /\ list'.root = list.root /\ list'.args = list.args
         /\ list'.pending.repl = IF enabled THEN published[p] ELSE Null
         /\ list'.last_table = list.last_table /\ list'.heaps = list.heaps
         /\ list'.heaps_dirty = list.heaps_dirty
<1>1. PICK found : found = IF enabled THEN published[p] ELSE Null
  OBVIOUS
<1>2. PICK L, N : L = list /\ N = list'
  OBVIOUS
<1>3. /\ p \in pipelines /\ UNCHANGED device
      /\ N = [L EXCEPT !.pipe = p, !.pending = [repl |-> found, swapped |-> FALSE]]
  BY <1>1, <1>2 DEF BindPipeline
<1>4. ListOK(L)
  BY <1>2 DEF LInv
<1>5. N = [pipe |-> p, root |-> L.root, args |-> L.args, heaps |-> L.heaps,
           pending |-> [repl |-> found, swapped |-> FALSE], heaps_dirty |-> L.heaps_dirty,
           last_table |-> L.last_table, current_layout |-> L.current_layout]
  BY <1>3, <1>4 DEF ListOK, ListType
<1>6. found # Null => Installed(found) /\ found.pipeline = p
  BY <1>1 DEF LInv, DeviceOK, PublishedInstalled
<1>7. PendingInstalled(N)
  BY <1>3, <1>5, <1>6 DEF PendingInstalled
<1>8. ListType(N) /\ RootsExist(N) /\ TablesAtTables(N) /\ LastInPlace(N) /\ LastTableBound(N)
  BY <1>4, <1>5 DEF ListOK, ListType, RootsExist, TablesAtTables, LastInPlace,
     LastTableBound
<1>9. QED
  BY <1>1, <1>2, <1>3, <1>5, <1>7, <1>8 DEF ListOK

(* The heaps of the game: a good list, and nothing else touched.           *)
LEMMA SetHeapsOK ==
  ASSUME LInv, SetHeaps
  PROVE  /\ ListOK(list') /\ UNCHANGED device
         /\ list'.pipe = list.pipe /\ list'.root = list.root /\ list'.args = list.args
         /\ list'.last_table = list.last_table /\ list'.heaps = "game"
         /\ list'.heaps_dirty = list.heaps_dirty /\ list'.pending = list.pending
<1>1. PICK L, N : L = list /\ N = list'
  OBVIOUS
<1>2. N = [L EXCEPT !.heaps = "game"] /\ UNCHANGED device
  BY <1>1 DEF SetHeaps
<1>3. ListOK(L)
  BY <1>1 DEF LInv
<1>4. N = [pipe |-> L.pipe, root |-> L.root, args |-> L.args, heaps |-> "game",
           pending |-> L.pending, heaps_dirty |-> L.heaps_dirty,
           last_table |-> L.last_table, current_layout |-> L.current_layout]
  BY <1>2, <1>3 DEF ListOK, ListType
<1>5. ListType(N) /\ PendingInstalled(N) /\ RootsExist(N)
  BY <1>3, <1>4 DEF ListOK, ListType, PendingInstalled, RootsExist
<1>6. TablesAtTables(N) /\ LastInPlace(N) /\ LastTableBound(N)
  BY <1>3, <1>4 DEF ListOK, TablesAtTables, LastInPlace, LastTableBound
<1>7. QED
  BY <1>1, <1>2, <1>4, <1>5, <1>6 DEF ListOK

(* OnResetCommandList: an empty list.                                      *)
LEMMA ResetListOK ==
  ASSUME ResetList
  PROVE  ListOK(list') /\ UNCHANGED device /\ list' = EmptyList
<1>1. ListType(EmptyList) /\ PendingInstalled(EmptyList) /\ RootsExist(EmptyList)
  BY DEF EmptyList, NoPending, NoTable, ListType, PendingInstalled, RootsExist,
     BindPoints
<1>2. TablesAtTables(EmptyList) /\ LastInPlace(EmptyList) /\ LastTableBound(EmptyList)
  BY D3D12Assumption DEF EmptyList, NoTable, TablesAtTables, LastInPlace, LastTableBound
<1>3. QED
  BY <1>1, <1>2 DEF ResetList, ListOK

(* Before the first bindings are published no table is remembered.         *)
LEMMA NoTrackingYet ==
  ASSUME NEW L, ListOK(L), ~ any_bindings, NEW t \in BindPoints
  PROVE  L.last_table[t].table = Null
BY DEF ListOK, LastTableBound

(* A root signature of the game: a good list, whose tables go unless it    *)
(* was set already.                                                        *)
LEMMA SetRootSignatureOK ==
  ASSUME LInv, NEW t \in BindPoints, NEW l \in Layouts, SetRootSignature(t, l)
  PROVE  /\ ListOK(list') /\ UNCHANGED device
         /\ list'.pipe = list.pipe /\ list'.root = [list.root EXCEPT ![t] = l]
         /\ list'.args = IF list.root[t] = l THEN list.args
                         ELSE [list.args EXCEPT ![t] = [i \in Params |-> Null]]
         /\ list'.last_table = IF any_bindings THEN [list.last_table EXCEPT ![t] = NoTable]
                               ELSE list.last_table
         /\ list'.heaps = list.heaps /\ list'.heaps_dirty = list.heaps_dirty
         /\ list'.pending = list.pending
<1>1. PICK L, N : L = list /\ N = list'
  OBVIOUS
<1>2. ListOK(L)
  BY <1>1 DEF LInv
<1>3. PICK A : A = IF L.root[t] = l THEN L.args
                   ELSE [L.args EXCEPT ![t] = [i \in Params |-> Null]]
  OBVIOUS
<1>4. [L EXCEPT !.root[t] = l, !.args[t] = IF L.root[t] = l THEN @ ELSE [i \in Params |-> Null]]
        = [L EXCEPT !.root[t] = l, !.args = A]
  <2>1. CASE L.root[t] = l
    <3>1. [L.args EXCEPT ![t] = L.args[t]] = L.args
      BY <1>2 DEF ListOK, ListType
    <3>2. QED
      BY <1>2, <1>3, <2>1, <3>1 DEF ListOK, ListType
  <2>2. CASE L.root[t] # l
    BY <1>2, <1>3, <2>2 DEF ListOK, ListType
  <2>3. QED
    BY <2>1, <2>2
<1>5. PICK S : S = [L EXCEPT !.root[t] = l, !.args = A]
  OBVIOUS
<1>6. /\ layouts[l] # Null /\ UNCHANGED device
      /\ N = OnBindDescriptorTables(S, t, l, 0, << >>)
  BY <1>1, <1>4, <1>5 DEF SetRootSignature
<1>7. S = [pipe |-> L.pipe, root |-> [L.root EXCEPT ![t] = l], args |-> A, heaps |-> L.heaps,
           pending |-> L.pending, heaps_dirty |-> L.heaps_dirty,
           last_table |-> L.last_table, current_layout |-> L.current_layout]
  BY <1>2, <1>5 DEF ListOK, ListType
<1>8. PICK T, C : /\ T = IF any_bindings THEN [L.last_table EXCEPT ![t] = NoTable] ELSE L.last_table
                  /\ C = IF any_bindings THEN [L.current_layout EXCEPT ![t] = l] ELSE L.current_layout
  OBVIOUS
<1>9. N = [pipe |-> L.pipe, root |-> [L.root EXCEPT ![t] = l], args |-> A, heaps |-> L.heaps,
           pending |-> L.pending, heaps_dirty |-> L.heaps_dirty,
           last_table |-> T, current_layout |-> C]
  <2>1. CASE ~ any_bindings
    BY <1>6, <1>7, <1>8, <2>1 DEF OnBindDescriptorTables
  <2>2. CASE any_bindings
    <3>1. N = [S EXCEPT !.current_layout[t] = l, !.last_table[t] = NoTable]
      BY <1>6, <2>2 DEF OnBindDescriptorTables
    <3>2. QED
      BY <1>7, <1>8, <2>2, <3>1
  <2>3. QED
    BY <2>1, <2>2
<1>10. /\ [L.root EXCEPT ![t] = l] \in [BindPoints -> Layouts \cup {Null}]
       /\ C \in [BindPoints -> Layouts \cup {Null}]
       /\ T = [u \in BindPoints |-> T[u]]
       /\ A = [u \in BindPoints |-> [i \in Params |-> A[u][i]]]
  BY <1>2, <1>3, <1>8 DEF ListOK, ListType
<1>11. ListType(N) /\ PendingInstalled(N)
  BY <1>2, <1>9, <1>10 DEF ListOK, ListType, PendingInstalled
<1>12. RootsExist(N)
  BY <1>2, <1>6, <1>9 DEF ListOK, ListType, RootsExist
<1>13. ASSUME NEW u \in BindPoints
       PROVE  /\ T[u].table # Null =>
                   u # t /\ any_bindings /\ T[u] = L.last_table[u] /\ C[u] = L.current_layout[u]
              /\ u # t => A[u] = L.args[u] /\ N.root[u] = L.root[u]
              /\ u = t => \A i \in Params : A[u][i] \in Tables => A[u] = L.args[u] /\ N.root[u] = L.root[u]
  <2>1. T[u].table # Null =>
          u # t /\ any_bindings /\ T[u] = L.last_table[u] /\ C[u] = L.current_layout[u]
    <3>1. CASE any_bindings
      BY <1>2, <1>8, <3>1 DEF ListOK, ListType, NoTable
    <3>2. CASE ~ any_bindings
      BY <1>2, <1>8, <3>2, NoTrackingYet
    <3>3. QED
      BY <3>1, <3>2
  <2>2. u # t => A[u] = L.args[u] /\ N.root[u] = L.root[u]
    BY <1>2, <1>3, <1>9 DEF ListOK, ListType
  <2>3. u = t => \A i \in Params : A[u][i] \in Tables => A[u] = L.args[u] /\ N.root[u] = L.root[u]
    BY <1>2, <1>3, <1>9, D3D12Assumption DEF ListOK, ListType
  <2>4. QED
    BY <2>1, <2>2, <2>3
<1>14. TablesAtTables(N)
  BY <1>2, <1>9, <1>13 DEF ListOK, TablesAtTables
<1>15. LastInPlace(N) /\ LastTableBound(N)
  BY <1>2, <1>9, <1>13 DEF ListOK, LastInPlace, LastTableBound
<1>16. QED
  BY <1>1, <1>3, <1>6, <1>8, <1>9, <1>11, <1>12, <1>14, <1>15 DEF ListOK

(* The arguments are the old ones but for the tables that were set.        *)
TablesSet(old, new, first, tables) ==
  \A i \in Params : new[i] = IF i \in first..(first + Len(tables) - 1)
                             THEN tables[i - first + 1] ELSE old[i]

(* bind_descriptor_tables of the game: a good list, that has those tables  *)
(* and no other change of tables.                                          *)
LEMMA SetTablesOK ==
  ASSUME LInv, NEW t \in BindPoints, NEW first \in Params,
         NEW n \in 1..2, NEW tables \in [1..n -> Tables], SetTables(t, first, tables)
  PROVE  /\ ListOK(list') /\ UNCHANGED device
         /\ list.root[t] # Null /\ list.heaps # Null
         /\ list'.pipe = list.pipe /\ list'.root = list.root
         /\ \A u \in BindPoints : u # t => list'.args[u] = list.args[u]
         /\ TablesSet(list.args[t], list'.args[t], first, tables)
         /\ \A u \in BindPoints : u # t => list'.last_table[u] = list.last_table[u]
         /\ any_bindings => list'.last_table[t].table # Null
         /\ \/ list'.heaps = list.heaps /\ list'.heaps_dirty = list.heaps_dirty
            \/ list'.heaps = "game"
         /\ list'.pending = list.pending
<1>1. PICK L, N : L = list /\ N = list'
  OBVIOUS
<1>2. ListOK(L)
  BY <1>1 DEF LInv
<1>3. PICK m : m = first + n - 1
  OBVIOUS
<1>4. first \in Nat \ {0} /\ m \in first..m /\ m \in Nat /\ Len(tables) = n
      /\ \A i \in first..m : i - first + 1 \in 1..n
  BY <1>3, D3D12Assumption
<1>5. PICK B : B = [i \in Params |-> IF i \in first..m THEN tables[i - first + 1] ELSE L.args[t][i]]
  OBVIOUS
<1>6. PICK A : A = [L.args EXCEPT ![t] = B]
  OBVIOUS
<1>7. PICK S : S = [L EXCEPT !.args = A]
  OBVIOUS
<1>8. /\ L.root[t] # Null /\ L.heaps # Null /\ UNCHANGED device
      /\ \A i \in first..m : TableAt(L.root[t], i)
      /\ N = OnBindDescriptorTables(S, t, L.root[t], first, tables)
  BY <1>1, <1>3, <1>4, <1>5, <1>6, <1>7 DEF SetTables, TableAt
<1>9. PICK last : last = [layout |-> L.root[t], param |-> m, table |-> tables[n]]
  OBVIOUS
<1>10. tables # << >> /\ TableBind(L.root[t], first, tables) = last
  <2>1. tables[n] = Last(tables) /\ tables # << >>
    BY <1>4 DEF Last
  <2>2. QED
    BY <1>3, <1>4, <1>9, <2>1 DEF TableBind
<1>11. tables[n] \in Tables /\ tables[n] # Null
  BY D3D12Assumption
<1>12. S = [pipe |-> L.pipe, root |-> L.root, args |-> A, heaps |-> L.heaps,
            pending |-> L.pending, heaps_dirty |-> L.heaps_dirty,
            last_table |-> L.last_table, current_layout |-> L.current_layout]
  BY <1>2, <1>7 DEF ListOK, ListType
<1>13. PICK T, C : /\ T = IF any_bindings THEN [L.last_table EXCEPT ![t] = last] ELSE L.last_table
                   /\ C = IF any_bindings THEN [L.current_layout EXCEPT ![t] = L.root[t]]
                          ELSE L.current_layout
  OBVIOUS
<1>14. PICK K : K = [pipe |-> L.pipe, root |-> L.root, args |-> A, heaps |-> L.heaps,
                     pending |-> L.pending, heaps_dirty |-> L.heaps_dirty,
                     last_table |-> T, current_layout |-> C]
  OBVIOUS
<1>15. N = K \/ N = RestoreHeaps(K, t)
  <2>1. CASE ~ any_bindings
    BY <1>8, <1>12, <1>13, <1>14, <2>1 DEF OnBindDescriptorTables
  <2>2. CASE any_bindings
    <3>1. [S EXCEPT !.current_layout[t] = L.root[t], !.last_table[t] = last] = K
      <4>1. S.current_layout = L.current_layout /\ S.last_table = L.last_table
        BY <1>12
      <4>2. PICK D : D = [S EXCEPT !.current_layout = C, !.last_table = T]
        OBVIOUS
      <4>3. D = [pipe |-> L.pipe, root |-> L.root, args |-> A, heaps |-> L.heaps,
                 pending |-> L.pending, heaps_dirty |-> L.heaps_dirty,
                 last_table |-> T, current_layout |-> C]
        BY <1>12, <4>2
      <4>4. D = K
        BY <1>14, <4>3
      <4>5. QED
        BY <1>13, <2>2, <4>1, <4>2, <4>4
    <3>2. QED
      BY <1>8, <1>10, <2>2, <3>1 DEF OnBindDescriptorTables
  <2>3. QED
    BY <2>1, <2>2
<1>16. /\ L.root[t] \in Layouts
       /\ C \in [BindPoints -> Layouts \cup {Null}]
       /\ T = [u \in BindPoints |-> T[u]]
       /\ A = [u \in BindPoints |-> [i \in Params |-> A[u][i]]]
  BY <1>2, <1>5, <1>6, <1>8, <1>13 DEF ListOK, ListType
<1>17. ListType(K) /\ PendingInstalled(K) /\ RootsExist(K)
  BY <1>2, <1>14, <1>16 DEF ListOK, ListType, PendingInstalled, RootsExist
<1>18. /\ A[t] = B /\ \A u \in BindPoints : u # t => A[u] = L.args[u]
       /\ any_bindings => T[t] = last /\ C[t] = L.root[t]
       /\ ~ any_bindings => T[t] = L.last_table[t] /\ L.last_table[t].table = Null
       /\ \A u \in BindPoints : u # t => T[u] = L.last_table[u] /\ C[u] = L.current_layout[u]
  BY <1>2, <1>6, <1>13, NoTrackingYet DEF ListOK, ListType
<1>19. TablesAtTables(K)
  <2>1. ASSUME NEW u \in BindPoints, NEW i \in Params, A[u][i] \in Tables
        PROVE  L.root[u] # Null /\ TableAt(L.root[u], i)
    <3>1. CASE u = t /\ i \in first..m
      BY <1>8, <3>1
    <3>2. CASE ~ (u = t /\ i \in first..m)
      <4>1. A[u][i] = L.args[u][i]
        BY <1>5, <1>18, <3>2
      <4>2. QED
        BY <1>2, <2>1, <4>1 DEF ListOK, TablesAtTables
    <3>3. QED
      BY <3>1, <3>2
  <2>2. QED
    BY <1>14, <2>1 DEF TablesAtTables
<1>20. LastInPlace(K)
  <2>1. m \in Params => B[m] = tables[n]
    BY <1>3, <1>4, <1>5
  <2>2. QED
    BY <1>2, <1>9, <1>14, <1>18, <2>1 DEF ListOK, LastInPlace
<1>21. LastTableBound(K)
  BY <1>2, <1>4, <1>8, <1>9, <1>14, <1>18 DEF ListOK, LastTableBound
<1>22. ListOK(K)
  BY <1>17, <1>19, <1>20, <1>21 DEF ListOK
<1>23. N = K \/ N = Reheaped(K)
  BY <1>15, <1>17, <1>20, RestoreHeapsIs
<1>24. any_bindings => K.last_table[t].table # Null
  BY <1>9, <1>11, <1>14, <1>18
<1>25. /\ ListOK(N) /\ N.pipe = L.pipe /\ N.root = L.root /\ N.args = A
       /\ N.last_table = T /\ N.pending = L.pending
       /\ \/ N.heaps = L.heaps /\ N.heaps_dirty = L.heaps_dirty
          \/ N.heaps = "game"
  <2>1. CASE N = K
    BY <1>14, <1>22, <2>1
  <2>2. CASE N = Reheaped(K)
    BY <1>14, <1>22, <2>2, ReheapedOK
  <2>3. QED
    BY <1>23, <2>1, <2>2
<1>26. TablesSet(L.args[t], A[t], first, tables)
  BY <1>3, <1>4, <1>5, <1>18 DEF TablesSet
<1>27. QED
  BY <1>1, <1>8, <1>14, <1>18, <1>24, <1>25, <1>26

(* The game's tables are where they were, and none is anywhere else.       *)
SameTables(L, N) ==
  \A u \in BindPoints : \A i \in Params :
    N.args[u][i] \in Tables \/ L.args[u][i] \in Tables => N.args[u][i] = L.args[u][i]

(* ApplySwap: a good list, with the pipeline that was asked for.           *)
LEMMA SwapOK ==
  ASSUME HandlesAreAtoms, PipelinesHaveLayouts, NEW L, ListOK(L), NEW ready \in BOOLEAN,
         L.pending.repl # Null
  PROVE  /\ ListOK(ApplySwap(L, ready))
         /\ ApplySwap(L, ready).root = L.root /\ ApplySwap(L, ready).args = L.args
         /\ ApplySwap(L, ready).last_table = L.last_table
         /\ ApplySwap(L, ready).current_layout = L.current_layout
         /\ ApplySwap(L, ready).heaps = L.heaps
         /\ ApplySwap(L, ready).heaps_dirty = L.heaps_dirty
         /\ ApplySwap(L, ready).pending.repl = L.pending.repl
         /\ GamePipe(ApplySwap(L, ready).pipe) = GamePipe(L.pipe)
         /\ IF ready THEN ApplySwap(L, ready).pipe = L.pending.repl
                     ELSE ~ IsReplacement(ApplySwap(L, ready).pipe)
<1>1. PICK r : r = L.pending.repl
  OBVIOUS
<1>2. PICK N : N = ApplySwap(L, ready)
  OBVIOUS
<1>3. PICK x : x = IF ready THEN r ELSE r.pipeline
  OBVIOUS
<1>4. PendingInstalled(L) /\ Installed(r) /\ L.pipe = IF L.pending.swapped THEN r ELSE r.pipeline
  BY <1>1 DEF ListOK, PendingInstalled
<1>5. L.pending = [repl |-> r, swapped |-> L.pending.swapped] /\ L.pending.swapped \in BOOLEAN
  BY <1>1 DEF ListOK, ListType
<1>6. (IF ready = L.pending.swapped THEN L.pipe
       ELSE IF ready THEN L.pending.repl ELSE L.pending.repl.pipeline) = x
  BY <1>1, <1>3, <1>4, <1>5
<1>7. N = [L EXCEPT !.pipe = x, !.pending.swapped = ready]
  BY <1>2, <1>6 DEF ApplySwap, ListOK, ListType
<1>8. N = [pipe |-> x, root |-> L.root, args |-> L.args, heaps |-> L.heaps,
           pending |-> [repl |-> r, swapped |-> ready], heaps_dirty |-> L.heaps_dirty,
           last_table |-> L.last_table, current_layout |-> L.current_layout]
  <2>1. [L.pending EXCEPT !.swapped = ready] = [repl |-> r, swapped |-> ready]
    BY <1>5
  <2>2. N = [L EXCEPT !.pipe = x, !.pending = [repl |-> r, swapped |-> ready]]
    BY <1>7, <2>1
  <2>3. QED
    BY <2>2 DEF ListOK, ListType
<1>9. ListType(N) /\ RootsExist(N) /\ TablesAtTables(N) /\ LastInPlace(N) /\ LastTableBound(N)
  BY <1>8 DEF ListOK, ListType, RootsExist, TablesAtTables, LastInPlace, LastTableBound
<1>10. PendingInstalled(N)
  BY <1>1, <1>3, <1>4, <1>8 DEF PendingInstalled
<1>11. /\ GamePipe(N.pipe) = GamePipe(L.pipe)
       /\ ~ ready => ~ IsReplacement(N.pipe)
  BY <1>1, <1>4, <1>8, <1>10, GamePipeOf
<1>12. QED
  BY <1>1, <1>2, <1>3, <1>8, <1>9, <1>10, <1>11 DEF ListOK

(* PushD3D12: a good list, whose tables of the game are where they were.   *)
LEMMA PushOK ==
  ASSUME HandlesAreAtoms, LayoutsBuilt, NEW L, ListOK(L), NEW t \in BindPoints, NEW r,
         Installed(r), L.root[t] = LayoutOf[r.pipeline], L.root[t] # Null
  PROVE  /\ ListOK(PushD3D12(L, t, r)) /\ SameTables(L, PushD3D12(L, t, r))
         /\ PushD3D12(L, t, r).pipe = L.pipe /\ PushD3D12(L, t, r).root = L.root
         /\ PushD3D12(L, t, r).last_table = L.last_table
         /\ PushD3D12(L, t, r).heaps = "reshade" /\ PushD3D12(L, t, r).heaps_dirty = TRUE
<1> DEFINE used == {b.param : b \in r.bindings}
<1>1. PICK l : l = L.root[t]
  OBVIOUS
<1>2. l \in Layouts /\ layouts[l] # Null
  BY <1>1 DEF ListOK, ListType, RootsExist
<1>3. \A i \in used : ~ TableAt(l, i)
  BY <1>1, <1>2, LayoutFacts DEF Installed
<1>4. \A i : TableOf(r, i) \notin Tables
  <2>1. TAKE i
  <2>2. PICK f : f = TableOf(r, i)
    OBVIOUS
  <2>3. f = [k \in DOMAIN f |-> f[k]]
    BY <2>2 DEF TableOf
  <2>4. QED
    BY <2>2, <2>3, AtomsApart
<1>5. PICK B : B = [i \in Params |-> IF i \in used THEN TableOf(r, i) ELSE L.args[t][i]]
  OBVIOUS
<1>6. PICK A : A = [L.args EXCEPT ![t] = B]
  OBVIOUS
<1>7. PICK N : N = PushD3D12(L, t, r)
  OBVIOUS
<1>8. N = [L EXCEPT !.args = A, !.heaps = "reshade", !.heaps_dirty = TRUE]
  BY <1>5, <1>6, <1>7 DEF PushD3D12
<1>9. N = [pipe |-> L.pipe, root |-> L.root, args |-> A, heaps |-> "reshade",
           pending |-> L.pending, heaps_dirty |-> TRUE,
           last_table |-> L.last_table, current_layout |-> L.current_layout]
  BY <1>8 DEF ListOK, ListType
<1>10. A = [u \in BindPoints |-> [i \in Params |-> A[u][i]]]
  BY <1>5, <1>6 DEF ListOK, ListType
<1>11. A[t] = B /\ \A u \in BindPoints : u # t => A[u] = L.args[u]
  BY <1>6 DEF ListOK, ListType
<1>12. \A i \in Params : i \in used => L.args[t][i] \notin Tables
  BY <1>1, <1>3 DEF ListOK, TablesAtTables
<1>13. SameTables(L, N)
  BY <1>4, <1>5, <1>9, <1>11, <1>12 DEF SameTables
<1>14. ListType(N) /\ PendingInstalled(N) /\ RootsExist(N) /\ LastTableBound(N)
  BY <1>9, <1>10 DEF ListOK, ListType, PendingInstalled, RootsExist, LastTableBound
<1>15. TablesAtTables(N)
  BY <1>9, <1>13 DEF ListOK, TablesAtTables, SameTables
<1>16. LastInPlace(N)
  <2>1. ASSUME NEW u \in BindPoints, L.last_table[u].table # Null, L.last_table[u].param \in Params
        PROVE  A[u][L.last_table[u].param] = L.last_table[u].table
    <3>1. TableAt(L.root[u], L.last_table[u].param)
      BY <2>1 DEF ListOK, LastTableBound
    <3>2. u = t => L.last_table[u].param \notin used
      BY <1>1, <1>3, <3>1
    <3>3. A[u][L.last_table[u].param] = L.args[u][L.last_table[u].param]
      BY <1>5, <1>11, <2>1, <3>2
    <3>4. QED
      BY <2>1, <3>3 DEF ListOK, LastInPlace
  <2>2. QED
    BY <1>9, <2>1 DEF LastInPlace
<1>17. QED
  BY <1>7, <1>9, <1>13, <1>14, <1>15, <1>16 DEF ListOK

(* HandleDraw: a good list, whose tables of the game are where they were;  *)
(* and its three outcomes for the heaps.                                   *)
LEMMA DrawOK ==
  ASSUME HandlesAreAtoms, LInv, NEW unknown \in BOOLEAN, NEW usable \in BOOLEAN,
         Draw(unknown, usable)
  PROVE  /\ ListOK(list') /\ UNCHANGED device /\ SameTables(list, list')
         /\ list'.root = list.root /\ GamePipe(list'.pipe) = GamePipe(list.pipe)
         /\ list'.last_table = list.last_table
         /\ \/ /\ list'.heaps = "reshade" /\ list'.heaps_dirty = TRUE /\ any_bindings
               /\ IsReplacement(list'.pipe) /\ list'.pipe.bindings # {}
            \/ list'.heaps = "game"
            \/ /\ list'.heaps = list.heaps /\ list'.heaps_dirty = list.heaps_dirty
               /\ list.heaps_dirty => \A t \in BindPoints : list.last_table[t].table = Null
<1>1. PICK L, N : L = list /\ N = list'
  OBVIOUS
<1>2. PICK t : t = BindPointOf(GamePipe(L.pipe))
  OBVIOUS
<1>3. PICK pref : pref = IF unknown THEN "graphics" ELSE t
  OBVIOUS
<1>4. PICK held : held = (L.pending.repl # Null)
  OBVIOUS
<1>5. PICK ready : ready = (held /\ usable)
  OBVIOUS
<1>6. held \in BOOLEAN /\ ready \in BOOLEAN
  BY <1>4, <1>5
<1>7. PICK S : S = IF held THEN ApplySwap(L, ready) ELSE L
  OBVIOUS
<1>8. /\ L.pipe # Null /\ L.root[t] = LayoutOf[GamePipe(L.pipe)] /\ UNCHANGED device
      /\ N = IF held /\ Pushes(L, ready) THEN PushD3D12(S, t, L.pending.repl) ELSE Restore(S, pref)
  BY <1>1, <1>2, <1>3, <1>4, <1>5, <1>7 DEF Draw
<1>9. t \in BindPoints /\ pref \in BindPoints
  BY <1>2, <1>3 DEF BindPointOf, BindPoints
<1>10. ListOK(L) /\ PipelinesHaveLayouts /\ LayoutsBuilt
  BY <1>1 DEF LInv, DeviceOK
<1>11. /\ ListOK(S) /\ S.root = L.root /\ S.args = L.args /\ S.last_table = L.last_table
       /\ S.current_layout = L.current_layout
       /\ S.heaps = L.heaps /\ S.heaps_dirty = L.heaps_dirty
       /\ GamePipe(S.pipe) = GamePipe(L.pipe)
       /\ held /\ ready => S.pipe = L.pending.repl
  <2>1. CASE held
    BY <1>4, <1>6, <1>7, <1>10, <2>1, SwapOK
  <2>2. CASE ~ held
    BY <1>7, <1>10, <2>2
  <2>3. QED
    BY <1>6, <2>1, <2>2
<1>12. CASE held /\ Pushes(L, ready)
  <2>1. PICK r : r = L.pending.repl
    OBVIOUS
  <2>2. r # Null /\ ready /\ r.bindings # {}
    BY <1>4, <1>12, <2>1 DEF Pushes
  <2>3. Installed(r) /\ r.pipeline = GamePipe(L.pipe) /\ IsReplacement(r)
    BY <1>10, <2>1, <2>2, GamePipeOf DEF ListOK, PendingInstalled
  <2>4. L.root[t] # Null
    <3>1. GamePipe(L.pipe) \in Pipelines
      BY <2>3, <1>10 DEF Installed, PipelinesHaveLayouts
    <3>2. QED
      BY <1>8, <3>1, D3D12Assumption
  <2>5. N = PushD3D12(S, t, r)
    BY <1>8, <1>12, <2>1
  <2>6. /\ ListOK(N) /\ SameTables(S, N) /\ N.pipe = S.pipe /\ N.root = S.root
        /\ N.last_table = S.last_table /\ N.heaps = "reshade" /\ N.heaps_dirty = TRUE
    <3>1. S.root[t] = LayoutOf[r.pipeline] /\ S.root[t] # Null
      BY <1>8, <1>11, <2>3, <2>4
    <3>2. QED
      BY <1>9, <1>10, <1>11, <2>3, <2>5, <3>1, PushOK
  <2>7. SameTables(L, N)
    BY <1>11, <2>6 DEF SameTables
  <2>8. any_bindings
    BY <2>2, <2>3 DEF Installed
  <2>9. QED
    BY <1>1, <1>8, <1>11, <1>12, <2>1, <2>2, <2>3, <2>6, <2>7, <2>8
<1>13. CASE ~ (held /\ Pushes(L, ready))
  <2>1. N = Restore(S, pref)
    BY <1>8, <1>13
  <2>2. SameTables(L, S)
    BY <1>11 DEF SameTables
  <2>3. CASE N = S /\ (S.heaps_dirty => \A u \in BindPoints : S.last_table[u].table = Null)
    BY <1>1, <1>8, <1>11, <2>2, <2>3
  <2>4. CASE N = Reheaped(S)
    <3>1. /\ ListOK(N) /\ N.pipe = S.pipe /\ N.root = S.root /\ N.args = S.args
          /\ N.last_table = S.last_table /\ N.heaps = "game"
      BY <1>11, <2>4, ReheapedOK
    <3>2. SameTables(L, N)
      BY <1>11, <3>1 DEF SameTables
    <3>3. QED
      BY <1>1, <1>8, <1>11, <3>1, <3>2
  <2>5. CASE ~ S.heaps_dirty
    BY <2>1, <2>3, <2>5 DEF Restore
  <2>6. CASE S.heaps_dirty
    <3>1. N = RestoreHeaps(S, pref)
      BY <2>1, <2>6 DEF Restore
    <3>2. \/ /\ N = S
             /\ \A u \in BindPoints : ~ (/\ S.last_table[u].table # Null
                                        /\ S.last_table[u].layout = S.current_layout[u])
          \/ N = Reheaped(S)
      BY <1>9, <1>11, <3>1, RestoreHeapsIs DEF ListOK
    <3>3. \A u \in BindPoints : S.last_table[u].table # Null =>
            S.last_table[u].layout = S.current_layout[u]
      BY <1>11 DEF ListOK, LastTableBound
    <3>4. QED
      BY <2>3, <2>4, <3>2, <3>3
  <2>7. QED
    BY <2>5, <2>6
<1>14. QED
  BY <1>12, <1>13

(* Every step keeps the invariant.                                         *)
LEMMA LNext == ASSUME HandlesAreAtoms, LInv, [Next]_vars PROVE LInv'
<1>1. CASE UNCHANGED vars
  BY <1>1, ListCarries, DeviceCarries DEF vars, LInv
<1>2. CASE \E l \in Layouts, any_add \in BOOLEAN : \E s \in Signatures[l] :
             CreateLayout(l, s, any_add)
  BY <1>2, CreateLayoutInv
<1>3. CASE \E l \in Layouts : DestroyLayout(l)
  BY <1>3, DestroyLayoutInv
<1>4. CASE \E p \in Pipelines : CreatePipeline(p) \/ DestroyPipeline(p) \/ Unpatch(p)
  BY <1>4, CreatePipelineInv, DestroyPipelineInv, UnpatchInv
<1>5. CASE \E p \in Pipelines : \E shaders \in Wants[p] : Patch(p, shaders)
  BY <1>5, PatchInv
<1>6. ASSUME ListOK(list'), UNCHANGED device PROVE LInv'
  BY <1>6, ListCarries, DeviceCarries DEF LInv
<1>7. CASE \E p \in Pipelines, enabled \in BOOLEAN : BindPipeline(p, enabled)
  BY <1>6, <1>7, BindPipelineOK
<1>8. CASE \E l \in Layouts : \E t \in BindsAt[l] : SetRootSignature(t, l)
  <2>1. PICK l \in Layouts : \E t \in BindsAt[l] : SetRootSignature(t, l)
    BY <1>8
  <2>2. PICK t \in BindPoints : SetRootSignature(t, l)
    BY <2>1, D3D12Assumption
  <2>3. QED
    BY <1>6, <2>2, SetRootSignatureOK
<1>9. CASE \E t \in BindPoints, i \in Params, tables \in UNION {[1..n -> Tables] : n \in 1..2} :
             SetTables(t, i, tables)
  <2>1. PICK t \in BindPoints, i \in Params, tables \in UNION {[1..n -> Tables] : n \in 1..2} :
          SetTables(t, i, tables)
    BY <1>9
  <2>2. PICK n \in 1..2 : tables \in [1..n -> Tables]
    OBVIOUS
  <2>3. QED
    BY <1>6, <2>1, <2>2, SetTablesOK
<1>10. CASE SetHeaps
  BY <1>6, <1>10, SetHeapsOK
<1>11. CASE \E unknown, usable \in BOOLEAN : Draw(unknown, usable)
  BY <1>6, <1>11, DrawOK
<1>12. CASE ResetList
  BY <1>6, <1>12, ResetListOK
<1>13. QED
  BY <1>1, <1>2, <1>3, <1>4, <1>5, <1>7, <1>8, <1>9, <1>10, <1>11, <1>12 DEF Next,
     DeviceStep, ListStep

(* Whatever the device and the list go through, in every number of         *)
(* pipelines, layouts, tables and parameters, the invariant holds.         *)
THEOREM ListInvariant ==
  ASSUME HandlesAreAtoms
  PROVE  Spec => []LInv
<1>1. Init => LInv
  BY LInit
<1>2. LInv /\ [Next]_vars => LInv'
  BY LNext
<1>3. QED
  BY <1>1, <1>2, PTL DEF Spec

-----------------------------------------------------------------------------
(* The list is the game's.                                                 *)

(* What of the list's arguments is the game's.                             *)
GameArgs(L) ==
  [t \in BindPoints |-> [i \in Params |->
     IF L.args[t][i] \in Tables THEN L.args[t][i] ELSE Null]]

(* The empty list is the game's empty list.                                *)
LEMMA GameInit == ASSUME HandlesAreAtoms, Init PROVE Game!Init
<1>1. GamePipe(Null) = Null
  BY DEF GamePipe, IsReplacement
<1>2. GameArgs(EmptyList) = [t \in BindPoints |-> [i \in Params |-> Null]]
  BY D3D12Assumption DEF GameArgs, EmptyList
<1>3. QED
  BY <1>1, <1>2 DEF Init, EmptyList, GameArgs, NoDraw, BindPoints, Game!Init,
     Game!BindPoints, Game!NoArgs,
     Game!NoDraw

(* A list with the same tables of the game is the same list to the game.   *)
LEMMA SameGameArgs ==
  ASSUME NEW L, NEW N, SameTables(L, N)
  PROVE  GameArgs(N) = GameArgs(L)
BY DEF SameTables, GameArgs

(* Every step is one that the game made on its list, or none.              *)
LEMMA GameStep == ASSUME HandlesAreAtoms, LInv, [Next]_vars PROVE [Game!Next]_(Game!vars)
<1> USE DEF NoDraw, Game!NoDraw
<1>1. \A p \in Pipelines : GamePipe(p) = p
  BY DEF GamePipe, IsReplacement
<1>2. ASSUME list' = list, call' = call PROVE UNCHANGED Game!vars
  BY <1>2 DEF Game!vars, GamePipe, IsReplacement
<1>3. CASE UNCHANGED vars
  BY <1>2, <1>3 DEF vars
<1>4. CASE DeviceStep
  <2>1. list' = list /\ call' = call
    BY <1>4 DEF DeviceStep, CreateLayout, DestroyLayout, CreatePipeline,
       DestroyPipeline, Unpatch, Patch
  <2>2. QED
    BY <1>2, <2>1
<1>5. CASE \E p \in Pipelines, enabled \in BOOLEAN : BindPipeline(p, enabled)
  <2>1. PICK p \in Pipelines, enabled \in BOOLEAN : BindPipeline(p, enabled)
    BY <1>5
  <2>2. /\ list'.pipe = p /\ list'.root = list.root /\ list'.args = list.args
        /\ call' = [op |-> "none"]
    BY <2>1, BindPipelineOK DEF BindPipeline
  <2>3. Game!SetPipeline(p)
    BY <1>1, <2>2 DEF Game!SetPipeline, GamePipe, IsReplacement
  <2>4. QED
    BY <2>3 DEF Game!Next
<1>6. CASE \E l \in Layouts : \E t \in BindsAt[l] : SetRootSignature(t, l)
  <2>1. PICK l \in Layouts : \E t \in BindsAt[l] : SetRootSignature(t, l)
    BY <1>6
  <2>2. PICK t \in BindPoints : SetRootSignature(t, l)
    BY <2>1, D3D12Assumption
  <2>3. /\ list'.pipe = list.pipe /\ list'.root = [list.root EXCEPT ![t] = l]
        /\ list'.args = IF list.root[t] = l THEN list.args
                        ELSE [list.args EXCEPT ![t] = [i \in Params |-> Null]]
        /\ call' = [op |-> "none"]
    BY <2>2, SetRootSignatureOK DEF SetRootSignature
  <2>4. GameArgs(list') = IF list.root[t] = l THEN GameArgs(list)
                          ELSE [GameArgs(list) EXCEPT ![t] = [i \in Params |-> Null]]
    BY <2>3, D3D12Assumption DEF GameArgs, LInv, ListOK, ListType
  <2>5. Game!SetRootSignature(t, l)
    BY <2>3, <2>4 DEF Game!SetRootSignature, Game!NoArgs, GameArgs, GamePipe,
       IsReplacement
  <2>6. QED
    BY <2>5 DEF Game!Next, Game!BindPoints, BindPoints
<1>7. CASE \E t \in BindPoints, i \in Params, tables \in UNION {[1..n -> Tables] : n \in 1..2} :
             SetTables(t, i, tables)
  <2>1. PICK t \in BindPoints, first \in Params,
             tables \in UNION {[1..n -> Tables] : n \in 1..2} : SetTables(t, first, tables)
    BY <1>7
  <2>2. PICK n \in 1..2 : tables \in [1..n -> Tables]
    OBVIOUS
  <2>3. /\ list'.pipe = list.pipe /\ list'.root = list.root
        /\ \A u \in BindPoints : u # t => list'.args[u] = list.args[u]
        /\ TablesSet(list.args[t], list'.args[t], first, tables)
    BY <2>1, <2>2, SetTablesOK
  <2>4. call' = [op |-> "none"]
    BY <2>1 DEF SetTables
  <2>5. \A i \in first..(first + Len(tables) - 1) : tables[i - first + 1] \in Tables
    <3>1. Len(tables) = n /\ first \in Nat
      BY <2>2, D3D12Assumption
    <3>2. \A i \in first..(first + n - 1) : i - first + 1 \in 1..n
      BY <3>1
    <3>3. QED
      BY <2>2, <3>1, <3>2
  <2>6. GameArgs(list') = [GameArgs(list) EXCEPT ![t] =
          [i \in Params |-> IF i \in first..(first + Len(tables) - 1)
                              THEN tables[i - first + 1] ELSE GameArgs(list)[t][i]]]
    <3>1. \A i \in Params : GameArgs(list')[t][i] =
            IF i \in first..(first + Len(tables) - 1) THEN tables[i - first + 1]
            ELSE GameArgs(list)[t][i]
      BY <2>3, <2>5 DEF GameArgs, TablesSet
    <3>2. GameArgs(list')[t] = [i \in Params |-> GameArgs(list')[t][i]]
      BY DEF GameArgs
    <3>4. PICK F : F = [i \in Params |-> IF i \in first..(first + Len(tables) - 1)
                                          THEN tables[i - first + 1] ELSE GameArgs(list)[t][i]]
      OBVIOUS
    <3>5. GameArgs(list')[t] = F
      BY <3>1, <3>2, <3>4
    <3>6. \A u \in BindPoints : u # t => GameArgs(list')[u] = GameArgs(list)[u]
      BY <2>3 DEF GameArgs
    <3>7. GameArgs(list') = [u \in BindPoints |-> GameArgs(list')[u]]
      BY DEF GameArgs
    <3>8. GameArgs(list) = [u \in BindPoints |-> GameArgs(list)[u]]
      BY DEF GameArgs
    <3>9. GameArgs(list') = [GameArgs(list) EXCEPT ![t] = F]
      BY <3>5, <3>6, <3>7, <3>8
    <3>10. QED
      BY <3>4, <3>9
  <2>7. Game!SetTables(t, first, tables)
    BY <2>3, <2>4, <2>6 DEF Game!SetTables, GameArgs, GamePipe, IsReplacement
  <2>8. QED
    BY <2>1, <2>7 DEF Game!Next, Game!BindPoints, BindPoints
<1>8. CASE SetHeaps
  <2>1. /\ list'.pipe = list.pipe /\ list'.root = list.root /\ list'.args = list.args
        /\ call' = [op |-> "none"]
    BY <1>8, SetHeapsOK DEF SetHeaps
  <2>2. Game!SetHeaps
    BY <2>1 DEF Game!SetHeaps, GamePipe, IsReplacement
  <2>3. QED
    BY <2>2 DEF Game!Next
<1>9. CASE \E unknown, usable \in BOOLEAN : Draw(unknown, usable)
  <2>1. PICK unknown \in BOOLEAN, usable \in BOOLEAN : Draw(unknown, usable)
    BY <1>9
  <2>2. PICK t : t = BindPointOf(GamePipe(list.pipe))
    OBVIOUS
  <2>3. t \in BindPoints
    BY <2>2 DEF BindPointOf, BindPoints
  <2>4. call' = [op |-> "draw", at |-> t]
    BY <2>1, <2>2 DEF Draw
  <2>5. /\ list'.root = list.root /\ GamePipe(list'.pipe) = GamePipe(list.pipe)
        /\ SameTables(list, list')
    BY <2>1, DrawOK
  <2>6. GameArgs(list') = GameArgs(list)
    BY <2>5, SameGameArgs
  <2>7. Game!Use(t)
    BY <2>4, <2>5, <2>6 DEF Game!Use, GameArgs, GamePipe, IsReplacement
  <2>8. QED
    BY <2>3, <2>7 DEF Game!Next, Game!BindPoints, BindPoints
<1>10. CASE ResetList
  <2>1. list' = EmptyList /\ call' = [op |-> "none"]
    BY <1>10 DEF ResetList
  <2>2. GamePipe(Null) = Null
    BY DEF GamePipe, IsReplacement
  <2>3. GameArgs(EmptyList) = [t \in BindPoints |-> [i \in Params |-> Null]]
    BY D3D12Assumption DEF GameArgs, EmptyList
  <2>4. /\ EmptyList.pipe = Null /\ EmptyList.root = [t \in BindPoints |-> Null]
    BY DEF EmptyList
  <2>5. Game!Reset
    BY <2>1, <2>2, <2>3, <2>4 DEF Game!Reset, Game!BindPoints, Game!NoArgs, BindPoints,
       GameArgs,
       GamePipe, IsReplacement
  <2>6. QED
    BY <2>5 DEF Game!Next
<1>11. QED
  BY <1>3, <1>4, <1>5, <1>6, <1>7, <1>8, <1>9, <1>10 DEF Next, ListStep

(* But for the add-on's tables, heaps and swapped pipelines the list is    *)
(* the one the game recorded: the detailed list implements CommandList,    *)
(* whatever the game's habits (RestoreHeaps, PushD3D12, ApplySwap:         *)
(* runtime.cpp).                                                           *)
THEOREM ListUnaffectedHolds ==
  ASSUME HandlesAreAtoms
  PROVE  Spec => ListUnaffected
<1>1. Init => LInv /\ Game!Init
  BY LInit, GameInit
<1>2. LInv /\ [Next]_vars => LInv' /\ [Game!Next]_(Game!vars)
  BY LNext, GameStep
<1>3. QED
  BY <1>1, <1>2, PTL DEF Spec, ListUnaffected, Game!Spec

(* The game's root parameters keep their index in every root signature,    *)
(* and what the add-on remembers of one are its own tables                 *)
(* (OnCreatePipelineLayout, OnInitPipelineLayout, ForgetLayout).           *)
THEOREM IndicesKeptHolds ==
  ASSUME HandlesAreAtoms
  PROVE  Spec => []IndicesKept
<1>1. Init => LInv
  BY LInit
<1>2. LInv /\ [Next]_vars => LInv'
  BY LNext
<1>3. LInv => IndicesKept
  BY IndicesAreKept DEF LInv, DeviceOK
<1>4. QED
  BY <1>1, <1>2, <1>3, PTL DEF Spec

-----------------------------------------------------------------------------
(* The game's heaps.                                                       *)

(* A game without the two habits.                                          *)
Careful == Allowed = {}

(* The game has a table bound at a bind point.                             *)
Bound(t) == \E i \in Params : list.args[t][i] \in Tables

(* Heaps that are not the game's are marked dirty; and where the game has  *)
(* a table, the add-on knows the last one, from the first bindings on.     *)
HeapsTracked ==
  /\ list.heaps = "reshade" => list.heaps_dirty /\ any_bindings
  /\ \A t \in BindPoints : Bound(t) =>
       list.heaps # Null /\ (any_bindings => list.last_table[t].table # Null)

(* The inductive invariant of GameHeapsAtDraw.                             *)
HInv == LInv /\ HeapsTracked /\ GameHeapsAtDraw

(* It holds of an empty list.                                              *)
LEMMA HInit == ASSUME HandlesAreAtoms, Init PROVE HInv
<1>1. \A t \in BindPoints : ~ Bound(t)
  BY D3D12Assumption DEF Init, EmptyList, Bound
<1>2. HeapsTracked
  BY <1>1, D3D12Assumption DEF Init, EmptyList, HeapsTracked
<1>3. QED
  BY <1>2, LInit DEF HInv, GameHeapsAtDraw, Init, NoDraw

(* The heaps are the game's, those of ReShade, or none.                    *)
LEMMA HeapsType == ASSUME LInv PROVE list.heaps \in {"game", "reshade", Null}
BY DEF LInv, ListOK, ListType

(* The device's steps keep it: a game without the habits has no table      *)
(* bound yet when the first bindings are published.                        *)
LEMMA DeviceHeaps ==
  ASSUME Careful, HInv, DeviceStep
  PROVE  HeapsTracked' /\ GameHeapsAtDraw'
<1>1. list' = list /\ call' = call
  BY DEF DeviceStep, CreateLayout, DestroyLayout, CreatePipeline, DestroyPipeline,
     Unpatch, Patch
<1>2. GameHeapsAtDraw'
  BY <1>1 DEF HInv, GameHeapsAtDraw, Drawing, IsReplacement
<1>3. any_bindings' = any_bindings \/ (any_bindings' /\ \A t \in BindPoints : ~ Bound(t))
  <2>1. CASE \E p \in Pipelines : \E shaders \in Wants[p] : Patch(p, shaders)
    <3>0. PICK p \in Pipelines : \E shaders \in Wants[p] : Patch(p, shaders)
      BY <2>1
    <3>1. PICK shaders \in Wants[p] : Patch(p, shaders)
      BY <3>0
    <3>2. CASE any_bindings \/ Merged(shaders) = {}
      BY <3>1, <3>2 DEF Patch, HInv, LInv, DeviceOK, PublishedInstalled
    <3>3. CASE ~ any_bindings /\ Merged(shaders) # {}
      <4>1. \A t \in BindPoints : \A i \in Params : list.args[t][i] = Null
        BY <3>1, <3>3 DEF Patch, Careful
      <4>2. \A t \in BindPoints : ~ Bound(t)
        BY <4>1, D3D12Assumption DEF Bound
      <4>3. any_bindings' \in BOOLEAN
        BY <3>1 DEF Patch
      <4>4. QED
        BY <3>3, <4>2, <4>3 DEF HInv, LInv, DeviceOK, PublishedInstalled
    <3>4. QED
      BY <3>2, <3>3
  <2>2. CASE ~ (\E p \in Pipelines : \E shaders \in Wants[p] : Patch(p, shaders))
    BY <2>2 DEF DeviceStep, CreateLayout, DestroyLayout, CreatePipeline,
       DestroyPipeline, Unpatch
  <2>3. QED
    BY <2>1, <2>2
<1>4. any_bindings \in BOOLEAN
  BY DEF HInv, LInv, DeviceOK, PublishedInstalled
<1>5. HeapsTracked'
  BY <1>1, <1>3, <1>4 DEF HInv, HeapsTracked, Bound
<1>6. QED
  BY <1>2, <1>5

(* The list's steps keep it.                                               *)
LEMMA ListHeaps ==
  ASSUME HandlesAreAtoms, Careful, HInv, ListStep
  PROVE  HeapsTracked' /\ GameHeapsAtDraw'
<1>1. LInv /\ HeapsTracked
  BY DEF HInv
<1>2. ASSUME call' = [op |-> "none"] PROVE GameHeapsAtDraw'
  BY <1>2 DEF GameHeapsAtDraw
<1>3. CASE \E p \in Pipelines, enabled \in BOOLEAN : BindPipeline(p, enabled)
  <2>1. PICK p \in Pipelines, enabled \in BOOLEAN : BindPipeline(p, enabled)
    BY <1>3
  <2>2. /\ list'.args = list.args /\ list'.last_table = list.last_table /\ list'.heaps = list.heaps
        /\ list'.heaps_dirty = list.heaps_dirty /\ any_bindings' = any_bindings
        /\ call' = [op |-> "none"]
    BY <1>1, <2>1, BindPipelineOK DEF device, BindPipeline, NoDraw
  <2>3. HeapsTracked'
    BY <1>1, <2>2 DEF HeapsTracked, Bound
  <2>4. QED
    BY <1>2, <2>2, <2>3
<1>4. CASE \E l \in Layouts : \E t \in BindsAt[l] : SetRootSignature(t, l)
  <2>1. PICK l \in Layouts : \E t \in BindsAt[l] : SetRootSignature(t, l)
    BY <1>4
  <2>2. PICK t \in BindPoints : SetRootSignature(t, l)
    BY <2>1, D3D12Assumption
  <2>3. call' = [op |-> "none"] /\ any_bindings' = any_bindings
    BY <2>2 DEF SetRootSignature, NoDraw, device
  <2>4. /\ list'.args = IF list.root[t] = l THEN list.args
                        ELSE [list.args EXCEPT ![t] = [i \in Params |-> Null]]
        /\ list'.last_table = IF any_bindings THEN [list.last_table EXCEPT ![t] = NoTable]
                              ELSE list.last_table
        /\ list'.heaps = list.heaps /\ list'.heaps_dirty = list.heaps_dirty
    BY <1>1, <2>2, SetRootSignatureOK
  <2>5. list.root[t] = l => ~ Bound(t)
    BY <2>2 DEF SetRootSignature, Bound, Careful
  <2>6. ASSUME NEW u \in BindPoints, Bound(u)'
        PROVE  u # t /\ Bound(u) /\ list'.last_table[u] = list.last_table[u]
    <3>1. u # t
      <4>1. CASE list.root[t] = l
        BY <2>4, <2>5, <2>6, <4>1 DEF Bound
      <4>2. CASE list.root[t] # l
        <5>1. \A i \in Params : list'.args[t][i] = Null
          BY <1>1, <2>4, <4>2 DEF LInv, ListOK, ListType
        <5>2. QED
          BY <2>6, <5>1, D3D12Assumption DEF Bound
      <4>3. QED
        BY <4>1, <4>2
    <3>2. QED
      BY <1>1, <2>4, <2>6, <3>1 DEF Bound, LInv, ListOK, ListType
  <2>7. HeapsTracked'
    BY <1>1, <2>3, <2>4, <2>6 DEF HeapsTracked
  <2>8. QED
    BY <1>2, <2>3, <2>7
<1>5. CASE \E t \in BindPoints, i \in Params, tables \in UNION {[1..n -> Tables] : n \in 1..2} :
             SetTables(t, i, tables)
  <2>1. PICK t \in BindPoints, first \in Params,
             tables \in UNION {[1..n -> Tables] : n \in 1..2} : SetTables(t, first, tables)
    BY <1>5
  <2>2. PICK n \in 1..2 : tables \in [1..n -> Tables]
    OBVIOUS
  <2>3. call' = [op |-> "none"] /\ any_bindings' = any_bindings
    BY <2>1 DEF SetTables, NoDraw, device
  <2>4. /\ list.heaps # Null
        /\ \A u \in BindPoints : u # t => list'.last_table[u] = list.last_table[u]
        /\ any_bindings => list'.last_table[t].table # Null
        /\ \/ list'.heaps = list.heaps /\ list'.heaps_dirty = list.heaps_dirty
           \/ list'.heaps = "game"
    BY <1>1, <2>1, <2>2, SetTablesOK
  <2>5. \A u \in BindPoints : u # t => list'.args[u] = list.args[u]
    BY <1>1, <2>1, <2>2, SetTablesOK
  <2>7. list'.heaps # Null
    BY <2>4, D3D12Assumption
  <2>8. HeapsTracked'
    BY <1>1, <2>3, <2>4, <2>5, <2>7 DEF HeapsTracked, Bound
  <2>9. QED
    BY <1>2, <2>3, <2>8
<1>6. CASE SetHeaps
  <2>1. /\ list'.args = list.args /\ list'.last_table = list.last_table /\ list'.heaps = "game"
        /\ list'.heaps_dirty = list.heaps_dirty /\ any_bindings' = any_bindings
        /\ call' = [op |-> "none"]
    BY <1>1, <1>6, SetHeapsOK DEF device, SetHeaps, NoDraw
  <2>2. HeapsTracked'
    BY <1>1, <2>1, D3D12Assumption DEF HeapsTracked, Bound
  <2>3. QED
    BY <1>2, <2>1, <2>2
<1>7. CASE \E unknown, usable \in BOOLEAN : Draw(unknown, usable)
  <2>1. PICK unknown \in BOOLEAN, usable \in BOOLEAN : Draw(unknown, usable)
    BY <1>7
  <2>2. PICK t : t = BindPointOf(GamePipe(list.pipe))
    OBVIOUS
  <2>3. t \in BindPoints
    BY <2>2 DEF BindPointOf, BindPoints
  <2>4. call' = [op |-> "draw", at |-> t] /\ any_bindings' = any_bindings
    BY <2>1, <2>2 DEF Draw, device
  <2>5. /\ SameTables(list, list') /\ list'.last_table = list.last_table
        /\ \/ /\ list'.heaps = "reshade" /\ list'.heaps_dirty = TRUE /\ any_bindings
              /\ IsReplacement(list'.pipe) /\ list'.pipe.bindings # {}
           \/ list'.heaps = "game"
           \/ /\ list'.heaps = list.heaps /\ list'.heaps_dirty = list.heaps_dirty
              /\ list.heaps_dirty => \A u \in BindPoints : list.last_table[u].table = Null
    BY <1>1, <2>1, DrawOK
  <2>6. \A u \in BindPoints : Bound(u)' => Bound(u)
    BY <2>5 DEF Bound, SameTables
  <2>7. HeapsTracked'
    BY <1>1, <2>4, <2>5, <2>6, D3D12Assumption DEF HeapsTracked
  <2>8. GameHeapsAtDraw'
    <3>1. SUFFICES ASSUME ~ Drawing', Bound(t)' PROVE list'.heaps = "game"
      BY <2>4 DEF GameHeapsAtDraw, Bound
    <3>2. ~ (IsReplacement(list'.pipe) /\ list'.pipe.bindings # {})
      BY <2>4, <3>1 DEF Drawing, IsReplacement
    <3>3. Bound(t) /\ list.heaps # Null /\ (any_bindings => list.last_table[t].table # Null)
      BY <1>1, <2>3, <2>6, <3>1 DEF HeapsTracked
    <3>4. list.heaps = "game" \/ (list.heaps = "reshade" /\ list.heaps_dirty /\ any_bindings)
      BY <1>1, <3>3, HeapsType DEF HeapsTracked
    <3>5. QED
      BY <2>3, <2>5, <3>2, <3>3, <3>4
  <2>9. QED
    BY <2>7, <2>8
<1>8. CASE ResetList
  <2>1. list' = EmptyList /\ call' = [op |-> "none"]
    BY <1>8 DEF ResetList, NoDraw
  <2>2. \A u \in BindPoints : ~ Bound(u)'
    BY <2>1, D3D12Assumption DEF EmptyList, Bound
  <2>3. HeapsTracked'
    BY <2>1, <2>2, D3D12Assumption DEF HeapsTracked, EmptyList
  <2>4. QED
    BY <1>2, <2>1, <2>3
<1>9. QED
  BY <1>3, <1>4, <1>5, <1>6, <1>7, <1>8 DEF ListStep

(* Every step keeps it.                                                    *)
LEMMA HNext == ASSUME HandlesAreAtoms, Careful, HInv, [Next]_vars PROVE HInv'
<1>1. LInv'
  BY LNext DEF HInv
<1>2. CASE UNCHANGED vars
  <2>1. list' = list /\ call' = call /\ any_bindings' = any_bindings
    BY <1>2 DEF vars, device
  <2>2. HeapsTracked' /\ GameHeapsAtDraw'
    BY <2>1 DEF HInv, HeapsTracked, Bound, GameHeapsAtDraw, Drawing, IsReplacement
  <2>3. QED
    BY <1>1, <2>2 DEF HInv
<1>3. CASE DeviceStep
  BY <1>1, <1>3, DeviceHeaps DEF HInv
<1>4. CASE ListStep
  BY <1>1, <1>4, ListHeaps DEF HInv
<1>5. QED
  BY <1>2, <1>3, <1>4 DEF Next

(* A draw of the game's own tables has the game's heaps, if the game has   *)
(* neither of the Habits (OnBindDescriptorTables, RestoreHeaps,            *)
(* HandleDraw).                                                            *)
THEOREM GameHeapsAtDrawHolds ==
  ASSUME HandlesAreAtoms, Careful
  PROVE  Spec => []GameHeapsAtDraw
<1>1. Init => HInv
  BY HInit
<1>2. HInv /\ [Next]_vars => HInv'
  BY HNext
<1>3. HInv => GameHeapsAtDraw
  BY DEF HInv
<1>4. QED
  BY <1>1, <1>2, <1>3, PTL DEF Spec

-----------------------------------------------------------------------------
(* What an extended root signature costs.                                  *)

(* Induction over a set of naturals, from the least natural outside of it. *)
LEMMA SetInduction ==
  ASSUME NEW T \in SUBSET Nat, 0 \in T, \A n \in Nat : n \in T => n + 1 \in T
  PROVE  T = Nat
<1> DEFINE S == Nat \ T
<1>1. SUFFICES ASSUME S # {} PROVE FALSE
  OBVIOUS
<1>2. PICK x : x \in S /\ \A y \in S : x <= y
  <2>1. S \in SUBSET Nat
    OBVIOUS
  <2>2. QED
    BY <1>1, <2>1, MinOf
<1>3. x \in Nat /\ x # 0 /\ x \notin T
  BY <1>2
<1>4. x - 1 \in Nat /\ ~ (x <= x - 1)
  BY <1>3
<1>5. x - 1 \in T
  BY <1>2, <1>4
<1>6. QED
  BY <1>3, <1>4, <1>5

(* What a parameter takes is a number.                                     *)
LEMMA DwordsType ==
  ASSUME NEW p \in Parameters
  PROVE  Dwords(p) \in Nat
BY DEF Dwords, Parameters, Kinds

(* The function of the partial sums exists, for any summands.              *)
LEMMA SumExists ==
  ASSUME NEW n \in Nat, NEW d \in [1..n -> Nat]
  PROVE  \E f \in [0..n -> Nat] : f = [i \in 0..n |-> IF i = 0 THEN 0 ELSE f[i - 1] + d[i]]
<1> DEFINE P(m, f) == f = [i \in 0..m |-> IF i = 0 THEN 0 ELSE f[i - 1] + d[i]]
<1> DEFINE T == {m \in Nat : m <= n => \E f \in [0..m -> Nat] : P(m, f)}
<1>1. 0 \in T
  <2> DEFINE f == [i \in 0..0 |-> 0]
  <2>1. f \in [0..0 -> Nat] /\ P(0, f)
    OBVIOUS
  <2>2. QED
    BY <2>1
<1>2. ASSUME NEW m \in Nat, m \in T PROVE m + 1 \in T
  <2>1. SUFFICES ASSUME m + 1 <= n PROVE \E g \in [0..(m + 1) -> Nat] : P(m + 1, g)
    OBVIOUS
  <2>2. PICK f \in [0..m -> Nat] : P(m, f)
    BY <1>2, <2>1
  <2>3. d[m + 1] \in Nat
    BY <2>1
  <2>4. PICK g : g = [i \in 0..(m + 1) |-> IF i <= m THEN f[i] ELSE f[m] + d[m + 1]]
    OBVIOUS
  <2>5. g \in [0..(m + 1) -> Nat]
    BY <2>3, <2>4
  <2>6. ASSUME NEW i \in 0..(m + 1) PROVE g[i] = IF i = 0 THEN 0 ELSE g[i - 1] + d[i]
    <3>1. CASE i = 0
      BY <2>2, <2>4, <3>1
    <3>2. CASE i \in 1..m
      <4>1. i \in 0..m /\ i - 1 \in 0..m /\ i # 0
        BY <3>2
      <4>2. f[i] = f[i - 1] + d[i]
        BY <2>2, <4>1
      <4>3. g[i] = f[i] /\ g[i - 1] = f[i - 1]
        BY <2>4, <4>1
      <4>4. QED
        BY <4>1, <4>2, <4>3
    <3>3. CASE i = m + 1
      <4>1. g[i] = f[m] + d[m + 1] /\ g[m] = f[m] /\ i - 1 = m /\ i # 0
        BY <2>4, <3>3
      <4>2. QED
        BY <3>3, <4>1
    <3>4. QED
      BY <3>1, <3>2, <3>3
  <2>7. P(m + 1, g)
    BY <2>5, <2>6
  <2>8. QED
    BY <2>5, <2>7
<1>3. T = Nat
  BY <1>1, <1>2, SetInduction
<1> HIDE DEF P
<1>4. n \in T
  BY <1>3
<1>5. \E f \in [0..n -> Nat] : P(n, f)
  BY <1>4
<1>6. QED
  BY <1>5 DEF P

(* So Cost is a sum.                                                       *)
LEMMA CostSum ==
  ASSUME NEW s \in Seq(Parameters)
  PROVE  \E f \in [0..Len(s) -> Nat] :
           /\ f[0] = 0
           /\ \A i \in 1..Len(s) : f[i] = f[i - 1] + Dwords(s[i])
           /\ Cost(s) = f[Len(s)]
<1>1. PICK n \in Nat : n = Len(s)
  OBVIOUS
<1>2. PICK d : d = [i \in 1..n |-> Dwords(s[i])]
  OBVIOUS
<1>3. d \in [1..n -> Nat]
  BY <1>1, <1>2, DwordsType
<1>4. \E f \in [0..n -> Nat] : f = [i \in 0..n |-> IF i = 0 THEN 0 ELSE f[i - 1] + d[i]]
  BY <1>3, SumExists
<1>5. \A f : f = [i \in 0..n |-> IF i = 0 THEN 0 ELSE f[i - 1] + d[i]]
             <=> f = [i \in 0..n |-> IF i = 0 THEN 0 ELSE f[i - 1] + Dwords(s[i])]
  <2>1. TAKE f
  <2>2. \A i \in 0..n : (IF i = 0 THEN 0 ELSE f[i - 1] + d[i])
                          = IF i = 0 THEN 0 ELSE f[i - 1] + Dwords(s[i])
    BY <1>2
  <2>3. QED
    BY <2>2
<1>6. PICK f : f = CHOOSE g : g = [i \in 0..n |-> IF i = 0 THEN 0 ELSE g[i - 1] + Dwords(s[i])]
  OBVIOUS
<1>7. Cost(s) = f[n]
  BY <1>1, <1>6 DEF Cost
<1>8. f = [i \in 0..n |-> IF i = 0 THEN 0 ELSE f[i - 1] + d[i]]
  <2>1. PICK h : h = [i \in 0..n |-> IF i = 0 THEN 0 ELSE h[i - 1] + d[i]]
    BY <1>4
  <2>2. h = [i \in 0..n |-> IF i = 0 THEN 0 ELSE h[i - 1] + Dwords(s[i])]
    BY <1>5, <2>1
  <2>3. f = [i \in 0..n |-> IF i = 0 THEN 0 ELSE f[i - 1] + Dwords(s[i])]
    BY <1>6, <2>2
  <2>4. QED
    BY <1>5, <2>3
<1>9. f \in [0..n -> Nat]
  <2> DEFINE T == {m \in Nat : m <= n => f[m] \in Nat}
  <2>1. 0 \in T
    BY <1>8
  <2>2. ASSUME NEW m \in Nat, m \in T PROVE m + 1 \in T
    <3>1. SUFFICES ASSUME m + 1 <= n PROVE f[m + 1] \in Nat
      OBVIOUS
    <3>2. m + 1 \in 0..n /\ m + 1 # 0 /\ m + 1 - 1 = m /\ m <= n /\ d[m + 1] \in Nat
      BY <1>3, <3>1
    <3>3. f[m + 1] = f[m] + d[m + 1]
      BY <1>8, <3>2
    <3>4. QED
      BY <2>2, <3>2, <3>3
  <2>3. T = Nat
    BY <2>1, <2>2, SetInduction
  <2>4. \A m \in 0..n : f[m] \in Nat
    BY <2>3
  <2>5. QED
    BY <1>8, <2>4
<1>10. f[0] = 0
  BY <1>8
<1>11. ASSUME NEW i \in 1..n PROVE f[i] = f[i - 1] + Dwords(s[i])
  <2>1. i \in 0..n /\ i # 0 /\ d[i] = Dwords(s[i])
    BY <1>2
  <2>2. QED
    BY <1>8, <2>1
<1>12. QED
  BY <1>1, <1>7, <1>9, <1>10, <1>11

(* A table of the add-on takes one DWORD.                                  *)
LEMMA InjectedCost ==
  ASSUME NEW i \in DOMAIN InjectedRanges
  PROVE  Dwords(InjectedParam(InjectedRanges[i])) = 1
<1>1. PICK class \in {"srv", "uav", "sampler"} :
        InjectedRanges[i] = InjectedRange(class) /\ Injected[class].count # 0
  BY InjectedRangesAre
<1>2. PICK r : r = InjectedRanges[i]
  OBVIOUS
<1>3. r.count # 0 /\ r.type = class
  BY <1>1, <1>2, InjectedRangeType
<1>4. ~ RootDescriptor(r)
  BY <1>3 DEF RootDescriptor
<1>5. InjectedParam(r).kind = "push" /\ Head(InjectedParam(r).ranges) = r
  BY PushNotStatic
<1>6. QED
  BY <1>2, <1>3, <1>4, <1>5 DEF Dwords

(* An extended root signature takes a DWORD more for every table of the    *)
(* add-on.                                                                 *)
LEMMA ExtendedCost ==
  ASSUME NEW s \in Seq(Parameters), NEW r, Extended(s, r)
  PROVE  Cost(r) = Cost(s) + Len(InjectedRanges)
<1>1. PICK k : k = InsertionIndex(s)
  OBVIOUS
<1>2. PICK m : m = Len(InjectedRanges)
  OBVIOUS
<1>3. PICK n : n = Len(s)
  OBVIOUS
<1>4. m \in Nat /\ n \in Nat /\ k \in 1..(n + 1)
  BY <1>1, <1>2, <1>3, InjectedRangesAre, InsertionIndexIs
<1>5. /\ r \in Seq(Parameters) /\ Len(r) = n + m
      /\ \A j \in 1..(k - 1) : r[j] = s[j]
      /\ \A j \in 1..m : Dwords(r[k - 1 + j]) = 1
      /\ \A j \in k..n : r[j + m] = s[j]
  BY <1>1, <1>2, <1>3, InjectedRangesAre, InjectedCost DEF Extended
<1>6. PICK f \in [0..n -> Nat] :
        /\ f[0] = 0 /\ \A i \in 1..n : f[i] = f[i - 1] + Dwords(s[i])
        /\ Cost(s) = f[n]
  BY <1>3, CostSum
<1>7. PICK g \in [0..(n + m) -> Nat] :
        /\ g[0] = 0 /\ \A i \in 1..(n + m) : g[i] = g[i - 1] + Dwords(r[i])
        /\ Cost(r) = g[n + m]
  BY <1>5, CostSum
<1> DEFINE Sum(i) == IF i < k THEN f[i] ELSE IF i < k + m THEN f[k - 1] + (i - (k - 1))
                     ELSE f[i - m] + m
<1> DEFINE T == {i \in Nat : i <= n + m => g[i] = Sum(i)}
<1>8. 0 \in T
  <2>1. Sum(0) = f[0]
    BY <1>4
  <2>2. QED
    BY <1>6, <1>7, <2>1
<1>9. ASSUME NEW i \in Nat, i \in T PROVE i + 1 \in T
  <2>1. SUFFICES ASSUME i + 1 <= n + m PROVE g[i + 1] = Sum(i + 1)
    OBVIOUS
  <2>2. i <= n + m /\ i + 1 \in 1..(n + m) /\ i + 1 - 1 = i
    BY <1>4, <2>1
  <2>3. g[i] = Sum(i) /\ g[i + 1] = g[i] + Dwords(r[i + 1])
    BY <1>7, <1>9, <2>2
  <2>4. CASE i + 1 < k
    <3>1. i + 1 \in 1..(k - 1) /\ i + 1 \in 1..n /\ i < k
      BY <1>4, <2>4
    <3>2. f[i + 1] = f[i] + Dwords(s[i + 1])
      BY <1>6, <2>2, <3>1
    <3>3. QED
      BY <1>5, <2>3, <2>4, <3>1, <3>2
  <2>5. CASE i + 1 >= k /\ i + 1 < k + m
    <3>1. i + 1 - (k - 1) \in 1..m /\ k - 1 + (i + 1 - (k - 1)) = i + 1
      BY <1>4, <2>5
    <3>2. Dwords(r[i + 1]) = 1
      BY <1>5, <3>1
    <3>3. Sum(i) = f[k - 1] + (i - (k - 1))
      <4>1. CASE i < k
        <5>1. i = k - 1 /\ f[k - 1] \in Nat
          BY <1>4, <2>5, <4>1
        <5>2. QED
          BY <1>4, <4>1, <5>1
      <4>2. CASE i >= k
        BY <1>4, <2>5, <4>2
      <4>3. QED
        BY <1>4, <4>1, <4>2
    <3>4. f[k - 1] \in Nat
      BY <1>4
    <3>5. Sum(i + 1) = f[k - 1] + (i + 1 - (k - 1))
      BY <1>4, <2>5
    <3>6. QED
      BY <1>4, <2>3, <3>2, <3>3, <3>4, <3>5
  <2>6. CASE i + 1 >= k + m
    <3>1. /\ i + 1 - m \in k..n /\ i + 1 - m + m = i + 1 /\ i + 1 - m \in 1..n
          /\ i + 1 - m - 1 = i - m /\ i - m \in 0..n
      BY <1>4, <2>1, <2>6
    <3>2. r[i + 1] = s[i + 1 - m]
      BY <1>5, <3>1
    <3>3. f[i + 1 - m] = f[i - m] + Dwords(s[i + 1 - m])
      <4>1. PICK q : q = i + 1 - m
        OBVIOUS
      <4>2. q \in 1..n /\ q - 1 = i - m
        BY <1>4, <3>1, <4>1
      <4>3. f[q] = f[q - 1] + Dwords(s[q])
        BY <1>6, <4>2
      <4>4. QED
        BY <4>1, <4>2, <4>3
    <3>4. Sum(i) = f[i - m] + m
      <4>1. CASE i >= k + m
        BY <1>4, <4>1
      <4>2. CASE i < k + m
        <5>1. i = k + m - 1 /\ i - m = k - 1 /\ f[k - 1] \in Nat /\ f[i - m] \in Nat
          BY <1>4, <2>6, <4>2
        <5>2. CASE i < k
          <6>1. m = 0 /\ i - m = i
            BY <1>4, <5>1, <5>2
          <6>2. QED
            BY <5>1, <5>2, <6>1
        <5>3. CASE i >= k
          BY <1>4, <4>2, <5>1, <5>3
        <5>4. QED
          BY <1>4, <5>2, <5>3
      <4>3. QED
        BY <1>4, <4>1, <4>2
    <3>5. Sum(i + 1) = f[i + 1 - m] + m
      BY <1>4, <2>6
    <3>6. f[i - m] \in Nat /\ Dwords(s[i + 1 - m]) \in Nat
      BY <1>3, <3>1, DwordsType
    <3>7. QED
      BY <1>4, <2>3, <3>2, <3>3, <3>4, <3>5, <3>6
  <2>7. QED
    BY <1>4, <2>4, <2>5, <2>6
<1>10. T = Nat
  BY <1>8, <1>9, SetInduction
<1>11. g[n + m] = Sum(n + m)
  <2>1. n + m \in Nat
    BY <1>4
  <2>2. n + m \in T
    BY <1>10, <2>1
  <2>3. QED
    BY <1>4, <2>2
<1>12. Sum(n + m) = f[n] + m
  <2>1. f[n] \in Nat
    BY <1>4
  <2>2. CASE k = n + 1
    <3>1. k - 1 = n /\ n + m < k + m /\ n + m - (k - 1) = m
      BY <1>4, <2>2
    <3>2. CASE n + m < k
      <4>1. m = 0 /\ n + m = n
        BY <1>4, <2>2, <3>2
      <4>2. QED
        BY <2>1, <3>2, <4>1
    <3>3. CASE ~ (n + m < k)
      <4>1. Sum(n + m) = f[k - 1] + (n + m - (k - 1))
        BY <1>4, <3>1, <3>3
      <4>2. QED
        BY <3>1, <4>1
    <3>4. QED
      BY <3>2, <3>3
  <2>3. CASE k <= n
    <3>1. ~ (n + m < k) /\ ~ (n + m < k + m) /\ n + m - m = n
      BY <1>4, <2>3
    <3>2. Sum(n + m) = f[n + m - m] + m
      BY <1>4, <3>1
    <3>3. QED
      BY <3>1, <3>2
  <2>4. QED
    BY <1>4, <2>2, <2>3
<1>13. QED
  BY <1>2, <1>6, <1>7, <1>11, <1>12

-----------------------------------------------------------------------------
(* What registers it declares.                                             *)

(* A register of a parameter lies in one of its ranges.                    *)
LEMMA RegistersAre ==
  ASSUME NEW p, NEW x, x \in RegistersOf(p)
  PROVE  \E r \in Range(p.ranges) :
           \E n \in r.reg..(IF r.count = Unbounded THEN MaxRegister ELSE r.reg + r.count - 1) :
             x = <<ClassOf(r.type), r.space, n>>
BY DEF RegistersOf

(* The ranges of a parameter are ranges.                                   *)
LEMMA RangesType ==
  ASSUME NEW s \in Seq(Parameters), NEW i \in 1..Len(s)
  PROVE  s[i] \in Range(s) /\ Range(s[i].ranges) \subseteq Registers
<1>1. s[i] \in Range(s) /\ s[i] \in Parameters
  BY DEF Range
<1>2. s[i].ranges \in Seq(Registers)
  BY <1>1 DEF Parameters
<1>3. QED
  BY <1>1, <1>2 DEF Range

(* The ranges of the add-on are bounded, and each is alone in its          *)
(* parameter.                                                              *)
LEMMA OursShape ==
  ASSUME NEW i \in DOMAIN InjectedRanges
  PROVE  /\ InjectedRanges[i] \in Range(InjectedRanges)
         /\ InjectedRanges[i].reg \in Nat /\ InjectedRanges[i].count \in Nat
         /\ InjectedRanges[i].type \in {"srv", "uav", "sampler"}
         /\ Range(InjectedParam(InjectedRanges[i]).ranges) = {InjectedRanges[i]}
<1>1. PICK r : r = InjectedRanges[i]
  OBVIOUS
<1>2. PICK class \in {"srv", "uav", "sampler"} : r = InjectedRange(class)
  BY <1>1, InjectedRangesAre
<1>3. r.reg \in Nat /\ r.count \in Nat /\ r.type = class
  BY <1>2, InjectedRangeType
<1>4. InjectedParam(r).ranges = <<r>>
  BY PushNotStatic
<1>5. Range(<<r>>) = {r}
  BY DEF Range
<1>6. r \in Range(InjectedRanges)
  BY <1>1 DEF Range
<1>7. QED
  BY <1>1, <1>3, <1>4, <1>5, <1>6

(* Ranges of one class and space that do not overlap share no register.    *)
LEMMA ApartUnlessOverlap ==
  ASSUME NEW a \in Registers, NEW i \in DOMAIN InjectedRanges,
         ~ Overlaps(a, InjectedRanges[i]),
         NEW n \in a.reg..(IF a.count = Unbounded THEN MaxRegister ELSE a.reg + a.count - 1),
         ClassOf(a.type) = ClassOf(InjectedRanges[i].type), a.space = InjectedRanges[i].space
  PROVE  n \notin InjectedRanges[i].reg..(InjectedRanges[i].reg + InjectedRanges[i].count - 1)
<1>1. PICK b : b = InjectedRanges[i]
  OBVIOUS
<1>2. b.reg \in Nat /\ b.count \in Nat
  BY <1>1, OursShape
<1>3. SUFFICES ASSUME n \in b.reg..(b.reg + b.count - 1) PROVE FALSE
  BY <1>1
<1>4. a.reg \in Nat /\ a.count \in Nat \cup {Unbounded} /\ Unbounded \notin Nat
  BY InjectionAssumption DEF Registers
<1>5. n \in Int /\ a.reg <= n
  BY <1>4
<1>6. b.count # 0 /\ b.reg <= n /\ n < b.reg + b.count
  BY <1>2, <1>3, <1>5
<1>7. EndsBehind(b, a.reg)
  BY <1>2, <1>4, <1>5, <1>6 DEF EndsBehind
<1>8. a.count # 0 /\ EndsBehind(a, b.reg)
  <2>1. CASE a.count = Unbounded
    BY <1>4, <2>1 DEF EndsBehind
  <2>2. CASE a.count \in Nat
    <3>1. n \in a.reg..(a.reg + a.count - 1)
      BY <1>4, <2>2
    <3>2. a.count # 0 /\ b.reg < a.reg + a.count
      BY <1>2, <1>4, <1>6, <2>2, <3>1
    <3>3. QED
      BY <3>2 DEF EndsBehind
  <2>3. QED
    BY <1>4, <2>1, <2>2
<1>9. Overlaps(a, b)
  BY <1>1, <1>6, <1>7, <1>8 DEF Overlaps
<1>10. QED
  BY <1>1, <1>9

(* A register of a table of the add-on lies in that table's range.         *)
LEMMA OursRegister ==
  ASSUME NEW i \in DOMAIN InjectedRanges, NEW x \in RegistersOf(InjectedParam(InjectedRanges[i]))
  PROVE  \E n \in InjectedRanges[i].reg..(InjectedRanges[i].reg + InjectedRanges[i].count - 1) :
           x = <<ClassOf(InjectedRanges[i].type), InjectedRanges[i].space, n>>
<1>1. PICK r \in Range(InjectedParam(InjectedRanges[i]).ranges) :
        \E n \in r.reg..(IF r.count = Unbounded THEN MaxRegister ELSE r.reg + r.count - 1) :
          x = <<ClassOf(r.type), r.space, n>>
  BY RegistersAre
<1>2. r = InjectedRanges[i] /\ r.count \in Nat
  BY <1>1, OursShape
<1>3. r.count # Unbounded
  BY <1>2, InjectionAssumption
<1>4. QED
  BY <1>1, <1>2, <1>3

(* No parameter of the game shares a register with a table of the add-on.  *)
LEMMA GameOursApart ==
  ASSUME NEW s \in Seq(Parameters), Injects(s), NEW i \in 1..Len(s),
         NEW j \in DOMAIN InjectedRanges
  PROVE  RegistersOf(s[i]) \cap RegistersOf(InjectedParam(InjectedRanges[j])) = {}
<1>1. SUFFICES ASSUME NEW x, x \in RegistersOf(s[i]),
                      x \in RegistersOf(InjectedParam(InjectedRanges[j]))
               PROVE  FALSE
  OBVIOUS
<1>9. PICK r \in Range(s[i].ranges) :
        \E n \in r.reg..(IF r.count = Unbounded THEN MaxRegister ELSE r.reg + r.count - 1) :
          x = <<ClassOf(r.type), r.space, n>>
  BY <1>1, RegistersAre
<1>2. PICK n \in r.reg..(IF r.count = Unbounded THEN MaxRegister ELSE r.reg + r.count - 1) :
        x = <<ClassOf(r.type), r.space, n>>
  BY <1>9
<1>3. PICK b : b = InjectedRanges[j]
  OBVIOUS
<1>4. PICK q \in b.reg..(b.reg + b.count - 1) : x = <<ClassOf(b.type), b.space, q>>
  BY <1>1, <1>3, OursRegister
<1>5. ClassOf(r.type) = ClassOf(b.type) /\ r.space = b.space /\ n = q
  BY <1>2, <1>4
<1>6. r \in Registers /\ s[i] \in Range(s) /\ b \in Range(InjectedRanges)
  BY <1>2, <1>3, RangesType, OursShape
<1>7. ~ Overlaps(r, b)
  BY <1>2, <1>6 DEF Injects
<1>8. QED
  BY <1>3, <1>4, <1>5, <1>6, <1>7, ApartUnlessOverlap

(* No two tables of the add-on share a register.                           *)
LEMMA OursApart ==
  ASSUME NEW i \in DOMAIN InjectedRanges, NEW j \in DOMAIN InjectedRanges, i # j
  PROVE  RegistersOf(InjectedParam(InjectedRanges[i]))
           \cap RegistersOf(InjectedParam(InjectedRanges[j])) = {}
<1>1. SUFFICES ASSUME NEW x, x \in RegistersOf(InjectedParam(InjectedRanges[i])),
                      x \in RegistersOf(InjectedParam(InjectedRanges[j]))
               PROVE  FALSE
  OBVIOUS
<1>2. PICK n : x = <<ClassOf(InjectedRanges[i].type), InjectedRanges[i].space, n>>
  BY <1>1, OursRegister
<1>3. PICK q : x = <<ClassOf(InjectedRanges[j].type), InjectedRanges[j].space, q>>
  BY <1>1, OursRegister
<1>4. ClassOf(InjectedRanges[i].type) = ClassOf(InjectedRanges[j].type)
  BY <1>2, <1>3
<1>5. InjectedRanges[i].type = InjectedRanges[j].type
  BY <1>4, OursShape DEF ClassOf
<1>6. QED
  BY <1>5, InjectedRangesAre

(* An extension declares no register twice unless the game did.            *)
LEMMA DisjointKept ==
  ASSUME NEW s \in Seq(Parameters), NEW r, Extended(s, r), Injects(s), Disjoint(s)
  PROVE  Disjoint(r)
<1>1. PICK k : k = InsertionIndex(s)
  OBVIOUS
<1>2. PICK m : m = Len(InjectedRanges)
  OBVIOUS
<1>3. PICK n : n = Len(s)
  OBVIOUS
<1>4. /\ m \in Nat /\ n \in Nat /\ k \in 1..(n + 1)
      /\ DOMAIN s = 1..n /\ DOMAIN InjectedRanges = 1..m
  BY <1>1, <1>2, <1>3, InjectedRangesAre, InsertionIndexIs
<1>5. /\ r \in Seq(Parameters) /\ Len(r) = n + m
      /\ \A j \in 1..(k - 1) : r[j] = s[j]
      /\ \A j \in 1..m : r[k - 1 + j] = InjectedParam(InjectedRanges[j])
      /\ \A j \in k..n : r[j + m] = s[j]
  BY <1>1, <1>2, <1>3 DEF Extended
<1> DEFINE Theirs(i, a) == /\ a \in 1..n /\ r[i] = s[a]
                           /\ a = IF i < k THEN i ELSE i - m
                           /\ i < k \/ i >= k + m
           Ours(i, a) == a \in 1..m /\ r[i] = InjectedParam(InjectedRanges[a]) /\ a = i - (k - 1)
<1>6. ASSUME NEW i \in 1..(n + m) PROVE \E a : Theirs(i, a) \/ Ours(i, a)
  <2>1. CASE i < k
    <3>1. i \in 1..(k - 1) /\ i \in 1..n
      BY <1>4, <2>1
    <3>2. Theirs(i, i)
      BY <1>5, <2>1, <3>1
    <3>3. QED
      BY <3>2
  <2>2. CASE i >= k /\ i < k + m
    <3>1. i - (k - 1) \in 1..m /\ k - 1 + (i - (k - 1)) = i
      BY <1>4, <2>2
    <3>2. Ours(i, i - (k - 1))
      BY <1>5, <3>1
    <3>3. QED
      BY <3>2
  <2>3. CASE i >= k + m
    <3>1. i - m \in k..n /\ i - m \in 1..n /\ i - m + m = i /\ ~ (i < k)
      BY <1>4, <2>3
    <3>2. Theirs(i, i - m)
      BY <1>5, <2>3, <3>1
    <3>3. QED
      BY <3>2
  <2>4. QED
    BY <1>4, <2>1, <2>2, <2>3
<1>7. ASSUME NEW i \in 1..(n + m), NEW j \in 1..(n + m), i # j
      PROVE  RegistersOf(r[i]) \cap RegistersOf(r[j]) = {}
  <2>1. PICK a : Theirs(i, a) \/ Ours(i, a)
    BY <1>6
  <2>2. PICK b : Theirs(j, b) \/ Ours(j, b)
    BY <1>6
  <2>3. CASE Theirs(i, a) /\ Theirs(j, b)
    <3>1. a # b
      BY <1>4, <1>7, <2>3
    <3>2. QED
      BY <1>4, <2>3, <3>1 DEF Disjoint
  <2>4. CASE Theirs(i, a) /\ Ours(j, b)
    BY <1>3, <1>4, <2>4, GameOursApart
  <2>5. CASE Ours(i, a) /\ Theirs(j, b)
    <3>1. RegistersOf(r[j]) \cap RegistersOf(r[i]) = {}
      BY <1>3, <1>4, <2>5, GameOursApart
    <3>2. QED
      BY <3>1
  <2>6. CASE Ours(i, a) /\ Ours(j, b)
    <3>1. a # b
      BY <1>4, <1>7, <2>6
    <3>2. QED
      BY <1>4, <2>6, <3>1, OursApart
  <2>7. QED
    BY <2>1, <2>2, <2>3, <2>4, <2>5, <2>6
<1>8. DOMAIN r = 1..(n + m)
  BY <1>4, <1>5
<1>9. QED
  BY <1>7, <1>8 DEF Disjoint

(* The part of the invariant that is about layouts gives ExtensionSound.   *)
LEMMA ExtensionIsSound ==
  ASSUME LayoutsBuilt
  PROVE  ExtensionSound
<1>1. SUFFICES ASSUME NEW l \in Layouts, layouts[l] # Null, layouts[l].real # layouts[l].game
               PROVE  /\ Disjoint(layouts[l].game) => Disjoint(layouts[l].real)
                      /\ Cost(layouts[l].real) <= MaxDwords
  BY DEF ExtensionSound
<1>2. PICK s \in Signatures[l], any_add \in BOOLEAN :
        layouts[l] = [game |-> s, real |-> CreatePipelineLayout(s, any_add)]
  BY <1>1 DEF LayoutsBuilt
<1>3. PICK r : r = CreatePipelineLayout(s, any_add)
  OBVIOUS
<1>4. s \in Seq(Parameters) /\ layouts[l].game = s /\ layouts[l].real = r
  BY <1>2, <1>3, SignatureType
<1>5. Injects(s) /\ Extended(s, r)
  BY <1>1, <1>3, <1>4, CreatedLayout
<1>6. Cost(r) <= MaxDwords
  <2>1. Cost(s) + Len(InjectedRanges) <= MaxDwords
    BY <1>5 DEF Injects
  <2>2. Cost(r) = Cost(s) + Len(InjectedRanges)
    BY <1>4, <1>5, ExtendedCost
  <2>3. QED
    BY <2>1, <2>2
<1>7. QED
  BY <1>4, <1>5, <1>6, DisjointKept

(* An extended root signature declares no register twice that was not      *)
(* declared twice before, and takes no more than 64 DWORDs, whatever the   *)
(* game's root signature and the configured ranges (Overlaps, Cost,        *)
(* OnCreatePipelineLayout).                                                *)
THEOREM ExtensionSoundHolds ==
  ASSUME HandlesAreAtoms
  PROVE  Spec => []ExtensionSound
<1>1. Init => LInv
  BY LInit
<1>2. LInv /\ [Next]_vars => LInv'
  BY LNext
<1>3. LInv => ExtensionSound
  BY ExtensionIsSound DEF LInv, DeviceOK
<1>4. QED
  BY <1>1, <1>2, <1>3, PTL DEF Spec

-----------------------------------------------------------------------------
(* The descriptors of a draw with a replacement.                           *)

(* A binding's register is a number, and two shaders of a pipeline that    *)
(* have the same handle have it at the same register.                      *)
StagesAgree ==
  \A p \in Pipelines : \A shaders \in Wants[p] :
    /\ \E n \in Nat : DOMAIN shaders = 1..n
    /\ \A k \in DOMAIN shaders : \A b \in shaders[k] : b.reg \in Nat
    /\ \A j, k \in DOMAIN shaders : \A a \in shaders[j], b \in shaders[k] :
         j # k /\ a.handle = b.handle /\ a.type = b.type => a.reg = b.reg /\ a.space = b.space

(* Params has every root parameter.                                        *)
ParamsSuffice ==
  \A l \in Layouts : \A s \in Signatures[l], any_add \in BOOLEAN :
    DOMAIN Roots(CreatePipelineLayout(s, any_add)) \subseteq Params

(* Each binding that the shaders want has a place in a table of the        *)
(* add-on.                                                                 *)
Placed(r) ==
  r.bindings # {} =>
    /\ Bindable(LayoutOf[r.pipeline], r.wants)
    /\ r.bindings = {DrawBinding(LayoutOf[r.pipeline], b) : b \in r.wants}
    /\ \A b \in r.wants : b.reg \in Nat

(* What a draw with a replacement leaves on the list.                      *)
Pushed ==
  Drawing =>
    /\ call.at \in BindPoints /\ list.heaps = "reshade"
    /\ list.pending.repl # Null /\ list.pipe = list.pending.repl
    /\ list.root[call.at] = LayoutOf[list.pipe.pipeline]
    /\ \A i \in Params : (\E b \in list.pipe.bindings : b.param = i) =>
         list.args[call.at][i] = TableOf(list.pipe, i)

(* The inductive invariant of DescriptorsReachShader.                      *)
DInv ==
  /\ LInv /\ Pushed
  /\ \A p \in Pipelines : published[p] # Null => Placed(published[p])
  /\ list.pending.repl # Null => Placed(list.pending.repl)

(* A range of the add-on's covers the registers of its class.              *)
LEMMA InjectedRangeIs ==
  ASSUME NEW class \in Range(Classes)
  PROVE  /\ InjectedRange(class).type = class /\ InjectedRange(class).space = Injected.space
         /\ InjectedRange(class).reg = Injected[class].base
         /\ InjectedRange(class).count = Injected[class].count
         /\ Injected[class].base \in Nat /\ Injected[class].count \in Nat
BY InjectionAssumption DEF InjectedRange

(* The handles that are left out are bound for an earlier shader, at the   *)
(* same register.                                                          *)
LEMMA MergedPlaces ==
  ASSUME StagesAgree, NEW p \in Pipelines, NEW shaders \in Wants[p]
  PROVE  /\ {DrawBinding(LayoutOf[p], b) : b \in Merged(shaders)} =
              {DrawBinding(LayoutOf[p], b) : b \in UNION Range(shaders)}
         /\ Merged(shaders) \subseteq UNION Range(shaders)
         /\ \A b \in UNION Range(shaders) : \E m \in Merged(shaders) :
              m.handle = b.handle /\ m.type = b.type /\ m.reg = b.reg /\ m.space = b.space
<1>1. /\ \E n \in Nat : DOMAIN shaders = 1..n
      /\ \A j, k \in DOMAIN shaders : \A a \in shaders[j], b \in shaders[k] :
           j # k /\ a.handle = b.handle /\ a.type = b.type => a.reg = b.reg /\ a.space = b.space
  BY DEF StagesAgree
<1>2. Merged(shaders) \subseteq UNION Range(shaders)
  BY DEF Merged, Range
<1>3. ASSUME NEW k \in DOMAIN shaders, NEW b \in shaders[k]
      PROVE  \E m \in Merged(shaders) :
               m.handle = b.handle /\ m.type = b.type /\ m.reg = b.reg /\ m.space = b.space
  <2> DEFINE S == {j \in DOMAIN shaders : \E m \in shaders[j] : m.handle = b.handle /\ m.type = b.type}
  <2>1. k \in S /\ S \in SUBSET Nat
    BY <1>1
  <2>2. PICK i \in S : \A j \in S : i <= j
    BY <2>1, MinOf
  <2>3. PICK m \in shaders[i] : m.handle = b.handle /\ m.type = b.type
    BY <2>2
  <2>4. CASE i = k
    <3>1. ASSUME NEW j \in 1..(k - 1), NEW n \in shaders[j]
          PROVE  n.handle # b.handle \/ n.type # b.type
      <4>1. j \in DOMAIN shaders /\ j < i
        BY <1>1, <2>4
      <4>2. j \notin S
        BY <1>1, <2>1, <2>2, <4>1
      <4>3. QED
        BY <4>1, <4>2
    <3>2. b \in Merged(shaders)
      BY <3>1 DEF Merged
    <3>3. QED
      BY <3>2
  <2>5. CASE i # k
    <3>1. ASSUME NEW j \in 1..(i - 1), NEW n \in shaders[j]
          PROVE  n.handle # m.handle \/ n.type # m.type
      <4>1. j \in DOMAIN shaders /\ j < i
        BY <1>1
      <4>2. j \notin S
        BY <1>1, <2>1, <2>2, <4>1
      <4>3. QED
        BY <2>3, <4>1, <4>2
    <3>2. m \in Merged(shaders)
      BY <3>1 DEF Merged
    <3>3. m.reg = b.reg /\ m.space = b.space
      BY <1>1, <2>3, <2>5
    <3>4. QED
      BY <2>3, <3>2, <3>3
  <2>6. QED
    BY <2>4, <2>5
<1>4. \A b \in UNION Range(shaders) : \E m \in Merged(shaders) :
        m.handle = b.handle /\ m.type = b.type /\ m.reg = b.reg /\ m.space = b.space
  BY <1>3 DEF Range
<1>5. \A b, m : m.handle = b.handle /\ m.type = b.type /\ m.reg = b.reg =>
                  DrawBinding(LayoutOf[p], m) = DrawBinding(LayoutOf[p], b)
  BY DEF DrawBinding, ParamOf
<1>6. {DrawBinding(LayoutOf[p], b) : b \in Merged(shaders)} =
        {DrawBinding(LayoutOf[p], b) : b \in UNION Range(shaders)}
  BY <1>2, <1>4, <1>5
<1>7. QED
  BY <1>2, <1>4, <1>6

(* BuildBindings places the bindings of the replacement it publishes.      *)
LEMMA ReplacementPlaced ==
  ASSUME StagesAgree, NEW p \in Pipelines, NEW shaders \in Wants[p],
         Merged(shaders) = {} \/ Bindable(LayoutOf[p], Merged(shaders))
  PROVE  Placed(Replacement(p, shaders))
<1>1. PICK w, all, l, r : /\ w = Merged(shaders) /\ all = UNION Range(shaders)
                          /\ l = LayoutOf[p] /\ r = Replacement(p, shaders)
  OBVIOUS
<1>2. /\ r.pipeline = p /\ r.wants = all /\ r.bindings = {DrawBinding(l, b) : b \in w}
  BY <1>1 DEF Replacement
<1>0. /\ {DrawBinding(LayoutOf[p], b) : b \in Merged(shaders)} =
           {DrawBinding(LayoutOf[p], b) : b \in UNION Range(shaders)}
      /\ \A b \in UNION Range(shaders) : \E m \in Merged(shaders) :
           m.handle = b.handle /\ m.type = b.type /\ m.reg = b.reg /\ m.space = b.space
  BY MergedPlaces
<1>3. /\ {DrawBinding(l, b) : b \in w} = {DrawBinding(l, b) : b \in all}
      /\ \A b \in all : \E m \in w :
           m.handle = b.handle /\ m.type = b.type /\ m.reg = b.reg /\ m.space = b.space
  BY <1>1, <1>0
<1>4. \A b \in all : b.reg \in Nat
  <2>1. \A k \in DOMAIN shaders : \A b \in shaders[k] : b.reg \in Nat
    BY DEF StagesAgree
  <2>2. QED
    BY <1>1, <2>1 DEF Range
<1>5. ASSUME r.bindings # {} PROVE Bindable(l, all)
  <2>1. Bindable(l, w)
    BY <1>1, <1>2, <1>5
  <2>2. \A b, m : m.handle = b.handle /\ m.type = b.type /\ m.reg = b.reg /\ m.space = b.space =>
          /\ ParamOf(l, m) = ParamOf(l, b) /\ DrawBinding(l, m) = DrawBinding(l, b)
          /\ InInjectedRange(m) <=> InInjectedRange(b)
    BY DEF ParamOf, DrawBinding, InInjectedRange
  <2>3. \A b \in all : ParamOf(l, b) # 0 /\ InInjectedRange(b)
    BY <1>3, <2>1, <2>2 DEF Bindable
  <2>4. ASSUME NEW a \in all, NEW b \in all,
               DrawBinding(l, a).param = DrawBinding(l, b).param,
               DrawBinding(l, a).slot = DrawBinding(l, b).slot
        PROVE  a.handle = b.handle
    <3>1. PICK m \in w : m.handle = a.handle /\ m.type = a.type /\ m.reg = a.reg /\ m.space = a.space
      BY <1>3
    <3>2. PICK n \in w : n.handle = b.handle /\ n.type = b.type /\ n.reg = b.reg /\ n.space = b.space
      BY <1>3
    <3>3. DrawBinding(l, m) = DrawBinding(l, a) /\ DrawBinding(l, n) = DrawBinding(l, b)
      BY <2>2, <3>1, <3>2
    <3>4. QED
      BY <2>1, <2>4, <3>1, <3>2, <3>3 DEF Bindable
  <2>5. QED
    BY <2>1, <2>3, <2>4 DEF Bindable
<1>6. QED
  BY <1>1, <1>2, <1>3, <1>4, <1>5 DEF Placed

(* A place stays one while the layout's tables do.                         *)
LEMMA PlacedStays ==
  ASSUME NEW r, Placed(r),
         LayoutOf[r.pipeline] \in DOMAIN injections =>
           /\ LayoutOf[r.pipeline] \in DOMAIN injections'
           /\ injections'[LayoutOf[r.pipeline]] = injections[LayoutOf[r.pipeline]]
  PROVE  Placed(r)'
<1>1. PICK l : l = LayoutOf[r.pipeline]
  OBVIOUS
<1>2. SUFFICES ASSUME r.bindings # {}
               PROVE  /\ Bindable(l, r.wants)'
                      /\ r.bindings = {DrawBinding(l, b)' : b \in r.wants}
                      /\ \A b \in r.wants : b.reg \in Nat
  BY <1>1 DEF Placed, Bindable, DrawBinding, ParamOf, InInjectedRange
<1>3. /\ Bindable(l, r.wants) /\ r.bindings = {DrawBinding(l, b) : b \in r.wants}
      /\ \A b \in r.wants : b.reg \in Nat
  BY <1>1, <1>2 DEF Placed
<1>4. l \in DOMAIN injections' /\ injections'[l] = injections[l]
  BY <1>1, <1>3 DEF Bindable
<1>5. \A b : ParamOf(l, b)' = ParamOf(l, b) /\ DrawBinding(l, b)' = DrawBinding(l, b)
  BY <1>4 DEF ParamOf, DrawBinding
<1>6. Bindable(l, r.wants)'
  BY <1>3, <1>4, <1>5 DEF Bindable, InInjectedRange
<1>7. QED
  BY <1>3, <1>5, <1>6

(* A replacement whose pipeline exists keeps its places in every step.     *)
LEMMA PlacesKept ==
  ASSUME LInv, [Next]_vars, NEW r, Installed(r), Placed(r)
  PROVE  Placed(r)'
<1>1. PICK l : l = LayoutOf[r.pipeline]
  OBVIOUS
<1>2. r.pipeline \in pipelines /\ r.pipeline \in Pipelines
  BY DEF Installed, LInv, DeviceOK, PipelinesHaveLayouts
<1>3. SUFFICES ASSUME l \in DOMAIN injections
               PROVE  l \in DOMAIN injections' /\ injections'[l] = injections[l]
  BY <1>1, PlacedStays
<1>4. l \in Layouts /\ layouts[l] # Null
  BY <1>1, <1>2, D3D12Assumption DEF LInv, DeviceOK, PipelinesHaveLayouts
<1>5. CASE \E k \in Layouts, any_add \in BOOLEAN : \E s \in Signatures[k] : CreateLayout(k, s, any_add)
  <2>1. PICK k \in Layouts, any_add \in BOOLEAN : \E s \in Signatures[k] : CreateLayout(k, s, any_add)
    BY <1>5
  <2>2. PICK s \in Signatures[k] : CreateLayout(k, s, any_add)
    BY <2>1
  <2>3. k # l
    BY <1>4, <2>2 DEF CreateLayout
  <2>4. \/ injections' = injections
        \/ injections' = [j \in DOMAIN injections \cup {k} |->
                            IF j = k THEN FindInjection(CreatePipelineLayout(s, any_add))
                            ELSE injections[j]]
    BY <2>2 DEF CreateLayout
  <2>5. QED
    BY <1>3, <2>3, <2>4
<1>6. CASE \E k \in Layouts : DestroyLayout(k)
  <2>1. PICK k \in Layouts : DestroyLayout(k)
    BY <1>6
  <2>2. k # l
    BY <1>1, <1>2, <2>1 DEF DestroyLayout
  <2>3. QED
    BY <1>3, <2>1, <2>2 DEF DestroyLayout, ForgetLayout
<1>7. ASSUME injections' = injections PROVE l \in DOMAIN injections' /\ injections'[l] = injections[l]
  BY <1>3, <1>7
<1>8. CASE \E p \in Pipelines : CreatePipeline(p) \/ DestroyPipeline(p) \/ Unpatch(p)
  BY <1>7, <1>8 DEF CreatePipeline, DestroyPipeline, Unpatch
<1>9. CASE \E p \in Pipelines : \E shaders \in Wants[p] : Patch(p, shaders)
  BY <1>7, <1>9 DEF Patch
<1>10. CASE ListStep \/ UNCHANGED vars
  BY <1>7, <1>10 DEF ListStep, BindPipeline, SetRootSignature, SetTables, SetHeaps, Draw,
     ResetList, vars, device
<1>11. QED
  BY <1>5, <1>6, <1>8, <1>9, <1>10 DEF Next, DeviceStep

(* What is published is placed after every step.                           *)
LEMMA PublishedPlaced ==
  ASSUME StagesAgree, DInv, [Next]_vars, NEW p \in Pipelines, published'[p] # Null
  PROVE  Placed(published[p])'
<1>1. PublishedInstalled /\ LInv
  BY DEF DInv, LInv, DeviceOK
<1>2. ASSUME published'[p] = published[p] PROVE Placed(published[p])'
  <2>1. PICK r : r = published[p]
    OBVIOUS
  <2>2. Installed(r) /\ Placed(r)
    BY <1>1, <1>2, <2>1 DEF DInv, PublishedInstalled
  <2>3. Placed(r)'
    BY <1>1, <2>2, PlacesKept
  <2>4. QED
    BY <1>2, <2>1, <2>3 DEF Placed, Bindable, DrawBinding, ParamOf, InInjectedRange
<1>3. CASE \E q \in Pipelines : \E shaders \in Wants[q] : Patch(q, shaders)
  <2>1. PICK q \in Pipelines : \E shaders \in Wants[q] : Patch(q, shaders)
    BY <1>3
  <2>2. PICK shaders \in Wants[q] : Patch(q, shaders)
    BY <2>1
  <2>3. PICK built : built = (Merged(shaders) = {} \/ Bindable(LayoutOf[q], Merged(shaders)))
    OBVIOUS
  <2>4. /\ published' = [published EXCEPT ![q] = IF built THEN Replacement(q, shaders) ELSE Null]
        /\ injections' = injections
    BY <2>2, <2>3 DEF Patch
  <2>5. CASE q # p
    BY <1>1, <1>2, <2>4, <2>5 DEF PublishedInstalled
  <2>6. CASE q = p
    <3>1. PICK r : r = Replacement(p, shaders)
      OBVIOUS
    <3>2. published'[p] = r /\ built
      BY <1>1, <2>4, <2>6, <3>1 DEF PublishedInstalled
    <3>3. Placed(r)
      BY <2>2, <2>3, <2>6, <3>1, <3>2, ReplacementPlaced
    <3>4. Placed(r)'
      BY <2>4, <3>3, PlacedStays
    <3>5. QED
      BY <3>2, <3>4 DEF Placed, Bindable, DrawBinding, ParamOf, InInjectedRange
  <2>7. QED
    BY <2>5, <2>6
<1>4. CASE ~ (\E q \in Pipelines : \E shaders \in Wants[q] : Patch(q, shaders))
  <2>1. \/ published' = published
        \/ \E q \in Pipelines : published' = [published EXCEPT ![q] = Null]
    BY <1>4 DEF Next, DeviceStep, ListStep, CreateLayout, DestroyLayout, CreatePipeline,
       DestroyPipeline, Unpatch, BindPipeline, SetRootSignature, SetTables, SetHeaps, Draw,
       ResetList, vars, device
  <2>2. published'[p] = published[p]
    BY <1>1, <2>1 DEF PublishedInstalled
  <2>3. QED
    BY <1>2, <2>2
<1>5. QED
  BY <1>3, <1>4

(* What a draw leaves of the list if it leaves a replacement in it.        *)
LEMMA DrawPushes ==
  ASSUME HandlesAreAtoms, LInv, NEW unknown \in BOOLEAN, NEW usable \in BOOLEAN,
         Draw(unknown, usable)
  PROVE  Pushed' /\ list'.pending.repl = list.pending.repl
<1>1. PICK L, N : L = list /\ N = list'
  OBVIOUS
<1>2. PICK t : t = BindPointOf(GamePipe(L.pipe))
  OBVIOUS
<1>3. PICK pref : pref = IF unknown THEN "graphics" ELSE t
  OBVIOUS
<1>4. PICK held : held = (L.pending.repl # Null)
  OBVIOUS
<1>5. PICK ready : ready = (held /\ usable)
  OBVIOUS
<1>6. held \in BOOLEAN /\ ready \in BOOLEAN
  BY <1>4, <1>5
<1>7. PICK S : S = IF held THEN ApplySwap(L, ready) ELSE L
  OBVIOUS
<1>8. /\ L.pipe # Null /\ L.root[t] = LayoutOf[GamePipe(L.pipe)]
      /\ N = IF held /\ Pushes(L, ready) THEN PushD3D12(S, t, L.pending.repl) ELSE Restore(S, pref)
      /\ call' = [op |-> "draw", at |-> t]
  BY <1>1, <1>2, <1>3, <1>4, <1>5, <1>7 DEF Draw
<1>9. t \in BindPoints /\ pref \in BindPoints
  BY <1>2, <1>3 DEF BindPointOf, BindPoints
<1>10. ListOK(L) /\ PipelinesHaveLayouts /\ LayoutsBuilt
  BY <1>1 DEF LInv, DeviceOK
<1>11. /\ ListOK(S) /\ S.root = L.root /\ S.args = L.args
       /\ S.pending.repl = L.pending.repl
       /\ held /\ ready => S.pipe = L.pending.repl
       /\ ~ (held /\ ready) => ~ IsReplacement(S.pipe)
  <2>1. CASE held
    BY <1>4, <1>6, <1>7, <1>10, <2>1, SwapOK
  <2>2. CASE ~ held
    BY <1>4, <1>7, <1>10, <2>2, GamePipeOf DEF ListOK
  <2>3. QED
    BY <1>6, <2>1, <2>2
<1>12. CASE held /\ Pushes(L, ready)
  <2>1. PICK r : r = L.pending.repl
    OBVIOUS
  <2>2. r # Null /\ ready /\ S.pipe = r
    BY <1>4, <1>11, <1>12, <2>1 DEF Pushes
  <2>3. r.pipeline = GamePipe(L.pipe)
    BY <1>10, <2>1, <2>2, GamePipeOf DEF ListOK
  <2>4. N = PushD3D12(S, t, r)
    BY <1>8, <1>12, <2>1
  <2>5. /\ N.pipe = r /\ N.root = L.root /\ N.heaps = "reshade" /\ N.pending = S.pending
        /\ N.args[t] = [i \in Params |-> IF i \in {b.param : b \in r.bindings} THEN TableOf(r, i)
                                         ELSE L.args[t][i]]
    BY <1>9, <1>11, <2>2, <2>4 DEF PushD3D12, ListOK, ListType
  <2>6. \A i \in Params : (\E b \in r.bindings : b.param = i) => N.args[t][i] = TableOf(r, i)
    BY <2>5
  <2>7. /\ N.pending.repl = r /\ N.root[t] = LayoutOf[r.pipeline]
    BY <1>8, <1>11, <2>1, <2>3, <2>5
  <2>8. /\ call'.at = t /\ list'.pipe = r /\ list'.heaps = "reshade"
        /\ list'.pending.repl = r /\ list'.root[t] = LayoutOf[r.pipeline]
        /\ \A i \in Params : (\E b \in r.bindings : b.param = i) => list'.args[t][i] = TableOf(r, i)
    BY <1>1, <1>8, <2>5, <2>6, <2>7
  <2>9. list'.pending.repl = list.pending.repl
    BY <1>1, <2>1, <2>8
  <2>10. Pushed'
    BY <1>9, <2>2, <2>8 DEF Pushed
  <2>11. QED
    BY <2>9, <2>10
<1>13. CASE ~ (held /\ Pushes(L, ready))
  <2>1. N = Restore(S, pref)
    BY <1>8, <1>13
  <2>2. N = S \/ N = Reheaped(S)
    BY <1>9, <1>11, <2>1, RestoreHeapsIs DEF Restore, ListOK
  <2>3. N.pipe = S.pipe /\ N.pending = S.pending
    BY <1>11, <2>2, ReheapedOK
  <2>4. ~ (IsReplacement(N.pipe) /\ N.pipe.bindings # {})
    BY <1>11, <1>13, <2>3 DEF Pushes
  <2>5. QED
    BY <1>1, <1>11, <2>3, <2>4 DEF Pushed, Drawing, IsReplacement
<1>14. QED
  BY <1>12, <1>13

(* It holds of an empty list.                                              *)
LEMMA DInit == ASSUME HandlesAreAtoms, Init PROVE DInv
BY LInit DEF Init, EmptyList, NoPending, NoDraw, DInv, Pushed, Drawing

(* Every step keeps it.                                                    *)
LEMMA DNext == ASSUME HandlesAreAtoms, StagesAgree, DInv, [Next]_vars PROVE DInv'
<1>1. LInv /\ LInv'
  BY LNext DEF DInv
<1>2. \A p \in Pipelines : published'[p] # Null => Placed(published[p])'
  BY PublishedPlaced
<1>3. ASSUME Pushed', list'.pending.repl = list.pending.repl PROVE DInv'
  <2>1. ASSUME list'.pending.repl # Null PROVE Placed(list.pending.repl)'
    <3>1. PICK r : r = list.pending.repl
      OBVIOUS
    <3>2. Installed(r) /\ Placed(r)
      BY <1>1, <1>3, <2>1, <3>1 DEF DInv, LInv, ListOK, PendingInstalled
    <3>3. Placed(r)'
      BY <1>1, <3>2, PlacesKept
    <3>4. QED
      BY <1>3, <3>1, <3>3 DEF Placed, Bindable, DrawBinding, ParamOf, InInjectedRange
  <2>2. QED
    BY <1>1, <1>2, <1>3, <2>1 DEF DInv
<1>4. ASSUME call' = NoDraw PROVE Pushed'
  BY <1>4 DEF Pushed, Drawing, NoDraw
<1>5. CASE UNCHANGED <<list, call>>
  BY <1>3, <1>5 DEF DInv, Pushed, Drawing, IsReplacement
<1>6. CASE \E p \in Pipelines, enabled \in BOOLEAN : BindPipeline(p, enabled)
  <2>1. PICK p \in Pipelines, enabled \in BOOLEAN : BindPipeline(p, enabled)
    BY <1>6
  <2>2. /\ list'.pending.repl = IF enabled THEN published[p] ELSE Null
        /\ published' = published /\ call' = NoDraw
    BY <1>1, <2>1, BindPipelineOK DEF BindPipeline, device
  <2>3. ASSUME list'.pending.repl # Null PROVE Placed(list.pending.repl)'
    BY <1>2, <2>2, <2>3 DEF Placed, Bindable, DrawBinding, ParamOf, InInjectedRange
  <2>4. QED
    BY <1>1, <1>2, <1>4, <2>2, <2>3 DEF DInv
<1>7. CASE \E l \in Layouts : \E t \in BindsAt[l] : SetRootSignature(t, l)
  <2>1. PICK l \in Layouts : \E t \in BindsAt[l] : SetRootSignature(t, l)
    BY <1>7
  <2>2. PICK t \in BindPoints : SetRootSignature(t, l)
    BY <2>1, D3D12Assumption
  <2>3. list'.pending = list.pending /\ call' = NoDraw
    BY <1>1, <2>2, SetRootSignatureOK DEF SetRootSignature
  <2>4. QED
    BY <1>3, <1>4, <2>3
<1>8. CASE \E t \in BindPoints, i \in Params, tables \in UNION {[1..n -> Tables] : n \in 1..2} :
             SetTables(t, i, tables)
  <2>1. PICK t \in BindPoints, i \in Params, tables \in UNION {[1..n -> Tables] : n \in 1..2} :
          SetTables(t, i, tables)
    BY <1>8
  <2>2. PICK n \in 1..2 : tables \in [1..n -> Tables]
    OBVIOUS
  <2>3. list'.pending = list.pending /\ call' = NoDraw
    BY <1>1, <2>1, <2>2, SetTablesOK DEF SetTables
  <2>4. QED
    BY <1>3, <1>4, <2>3
<1>9. CASE SetHeaps
  BY <1>1, <1>3, <1>4, <1>9, SetHeapsOK DEF SetHeaps
<1>10. CASE \E unknown, usable \in BOOLEAN : Draw(unknown, usable)
  BY <1>1, <1>3, <1>10, DrawPushes
<1>11. CASE ResetList
  <2>1. list'.pending.repl = Null /\ call' = NoDraw
    BY <1>11 DEF ResetList, EmptyList, NoPending
  <2>2. QED
    BY <1>1, <1>2, <1>4, <2>1 DEF DInv
<1>12. CASE DeviceStep
  BY <1>5, <1>12 DEF DeviceStep, CreateLayout, DestroyLayout, CreatePipeline,
     DestroyPipeline, Unpatch, Patch
<1>13. QED
  BY <1>5, <1>6, <1>7, <1>8, <1>9, <1>10, <1>11, <1>12 DEF Next, ListStep, vars

(* The table of a class has the handle of each of its bindings at the      *)
(* binding's slot, and no other handles.                                   *)
LEMMA TableHolds ==
  ASSUME NEW r, Placed(r), r.bindings # {}, NEW b \in r.wants, NEW i,
         i = ParamOf(LayoutOf[r.pipeline], b)
  PROVE  LET slot == b.reg - Injected[b.type].base
         IN /\ slot + 1 \in DOMAIN TableOf(r, i) /\ TableOf(r, i)[slot + 1] = b.handle
            /\ \A h \in Range(TableOf(r, i)) :
                 \E a \in r.wants : h = a.handle /\ ParamOf(LayoutOf[r.pipeline], a) = i
<1>1. PICK l : l = LayoutOf[r.pipeline]
  OBVIOUS
<1>2. PICK B : B = {c \in r.bindings : c.param = i}
  OBVIOUS
<1>3. /\ Bindable(l, r.wants) /\ r.bindings = {DrawBinding(l, a) : a \in r.wants}
      /\ \A a \in r.wants : a.reg \in Nat
  BY <1>1 DEF Placed
<1>4. \A a \in r.wants : /\ DrawBinding(l, a).param = ParamOf(l, a)
                          /\ DrawBinding(l, a).slot = a.reg - Injected[a.type].base
                          /\ DrawBinding(l, a).handle = a.handle
  BY DEF DrawBinding
<1>5. \A c \in B : \E a \in r.wants : c = DrawBinding(l, a) /\ ParamOf(l, a) = i
  BY <1>2, <1>3, <1>4
<1>6. b.type \in Range(Classes) /\ i # 0
  BY <1>1, <1>3 DEF Bindable, ParamOf
<1>7. ASSUME NEW a \in r.wants
      PROVE  /\ a.reg - Injected[a.type].base \in 0..(Injected[a.type].count - 1)
             /\ a.type \in {"srv", "uav", "sampler"} /\ Injected[a.type].count \in Nat
  <2>1. InInjectedRange(a) /\ a.type \in Range(Classes) /\ a.reg \in Nat
    BY <1>3 DEF Bindable, ParamOf
  <2>2. Injected[a.type].base \in Nat /\ Injected[a.type].count \in Nat
    BY <2>1, InjectedRangeIs
  <2>3. QED
    BY <2>1, <2>2, ClassNames DEF InInjectedRange
<1>8. PICK n \in Nat : \A a \in r.wants : a.reg - Injected[a.type].base \in 0..n
  <2>1. /\ Injected["srv"].count \in Nat /\ Injected["uav"].count \in Nat
        /\ Injected["sampler"].count \in Nat
    BY InjectedRangeIs, ClassNames
  <2>2. PICK n \in Nat : n = Injected["srv"].count + Injected["uav"].count + Injected["sampler"].count
    BY <2>1
  <2>3. ASSUME NEW a \in r.wants PROVE a.reg - Injected[a.type].base \in 0..n
    <3>1. Injected[a.type].count <= n
      BY <1>7, <2>1, <2>2
    <3>2. QED
      BY <1>7, <3>1
  <2>4. QED
    BY <2>3
<1>9. PICK S : S = {c.slot : c \in B}
  OBVIOUS
<1>10. PICK d \in B : d = DrawBinding(l, b) /\ d.slot = b.reg - Injected[b.type].base
  BY <1>1, <1>2, <1>3, <1>4
<1>11. S \in SUBSET (0..n) /\ d.slot \in S
  BY <1>4, <1>5, <1>8, <1>9
<1>12. Max(S) \in Nat /\ Max(S) >= d.slot
  <2>1. Max(S) \in S /\ \A y \in S : Max(S) >= y
    BY <1>11, MaxOf
  <2>2. \A y \in S : y \in Nat
    BY <1>11
  <2>3. QED
    BY <1>11, <2>1, <2>2
<1>13. PICK f : f = CHOOSE c \in B : \A e \in B : c.slot <= e.slot
  OBVIOUS
<1>14. f \in B
  <2>1. S \in SUBSET Nat /\ S # {}
    BY <1>11
  <2>2. PICK c \in B : Min(S) = c.slot
    BY <1>9, <2>1, MinOf
  <2>3. \A e \in B : c.slot <= e.slot
    BY <1>9, <2>1, <2>2, MinOf
  <2>4. QED
    BY <1>13, <2>2, <2>3
<1>15. PICK At : At = [k \in 1..(Max(S) + 1) |-> {c \in B : c.slot = k - 1}]
  OBVIOUS
<1>16. PICK T : T = TableOf(r, i)
  OBVIOUS
<1>17. T = [k \in 1..(Max(S) + 1) |-> IF At[k] = {} THEN f.handle ELSE (CHOOSE c \in At[k] : TRUE).handle]
  <2>1. T = [k \in 1..(Max(S) + 1) |-> IF {c \in B : c.slot = k - 1} = {} THEN f.handle
                                       ELSE (CHOOSE c \in {c \in B : c.slot = k - 1} : TRUE).handle]
    BY <1>2, <1>9, <1>13, <1>16 DEF TableOf
  <2>2. QED
    BY <1>15, <2>1
<1>18. ASSUME NEW k \in 1..(Max(S) + 1)
       PROVE  /\ \E c \in B : T[k] = c.handle
              /\ At[k] # {} => \E c \in B : c.slot = k - 1 /\ T[k] = c.handle
  <2>1. CASE At[k] = {}
    BY <1>14, <1>17, <2>1
  <2>2. CASE At[k] # {}
    <3>1. PICK c : c = CHOOSE e \in At[k] : TRUE
      OBVIOUS
    <3>2. c \in At[k]
      BY <2>2, <3>1
    <3>3. c \in B /\ c.slot = k - 1
      BY <1>15, <3>2
    <3>4. T[k] = c.handle
      BY <1>17, <2>2, <3>1
    <3>5. QED
      BY <3>3, <3>4
  <2>3. QED
    BY <2>1, <2>2
<1>19. PICK k \in Nat : k = b.reg - Injected[b.type].base + 1 /\ d.slot = k - 1
  BY <1>7, <1>10
<1>20. k \in 1..(Max(S) + 1) /\ d \in At[k]
  <2>1. k \in 1..(Max(S) + 1)
    BY <1>7, <1>10, <1>12, <1>19
  <2>2. At[k] = {c \in B : c.slot = k - 1}
    BY <1>15, <2>1
  <2>3. QED
    BY <1>19, <2>1, <2>2
<1>21. PICK c \in B : c.slot = k - 1 /\ T[k] = c.handle
  BY <1>18, <1>20
<1>22. PICK a \in r.wants : c = DrawBinding(l, a) /\ ParamOf(l, a) = i
  BY <1>5, <1>21
<1>23. a.handle = b.handle
  <2>1. /\ DrawBinding(l, a).param = DrawBinding(l, b).param
        /\ DrawBinding(l, a).slot = DrawBinding(l, b).slot
    BY <1>1, <1>4, <1>10, <1>19, <1>21, <1>22
  <2>2. QED
    BY <1>3, <2>1 DEF Bindable
<1>24. k \in DOMAIN T /\ T[k] = b.handle
  BY <1>4, <1>17, <1>20, <1>21, <1>22, <1>23
<1>25. ASSUME NEW h \in Range(T)
       PROVE  \E w \in r.wants : h = w.handle /\ ParamOf(l, w) = i
  <2>1. PICK j \in DOMAIN T : h = T[j]
    BY DEF Range
  <2>2. PICK e \in B : h = e.handle
    BY <1>17, <1>18, <2>1
  <2>3. PICK w \in r.wants : e = DrawBinding(l, w) /\ ParamOf(l, w) = i
    BY <1>5, <2>2
  <2>4. QED
    BY <1>4, <2>2, <2>3
<1>26. QED
  BY <1>1, <1>16, <1>19, <1>24, <1>25

(* What was pushed is what the shaders read.                               *)
LEMMA DescriptorsReach ==
  ASSUME HandlesAreAtoms, ParamsSuffice, DInv
  PROVE  DescriptorsReachShader
<1>1. SUFFICES ASSUME Drawing PROVE DescriptorsReachShader
  BY DEF DescriptorsReachShader
<1>2. PICK t, r, l : t = call.at /\ r = list.pipe /\ l = LayoutOf[r.pipeline]
  OBVIOUS
<1>3. /\ t \in BindPoints /\ list.heaps = "reshade" /\ r.bindings # {} /\ list.root[t] = l
      /\ \A i \in Params : (\E b \in r.bindings : b.param = i) => list.args[t][i] = TableOf(r, i)
  BY <1>1, <1>2 DEF DInv, Pushed, Drawing
<1>4. Placed(r)
  BY <1>1, <1>2 DEF DInv, Pushed
<1>5. /\ Bindable(l, r.wants) /\ r.bindings = {DrawBinding(l, b) : b \in r.wants}
      /\ \A b \in r.wants : b.reg \in Nat
  BY <1>2, <1>3, <1>4 DEF Placed
<1>6. LayoutsBuilt /\ InjectionsFound /\ l \in DOMAIN injections /\ l \in Layouts
  BY <1>5 DEF DInv, LInv, DeviceOK, Bindable, InjectionsFound
<1>7. ASSUME NEW class \in Range(Classes), injections[l][class] # 0
      PROVE  /\ injections[l][class] \in DOMAIN Roots(layouts[l].real)
             /\ Roots(layouts[l].real)[injections[l][class]] = InjectedParam(InjectedRange(class))
             /\ injections[l][class] \in Params
  <2>1. PICK s \in Signatures[l], any_add \in BOOLEAN :
          layouts[l] = [game |-> s, real |-> CreatePipelineLayout(s, any_add)]
    BY <1>6 DEF LayoutsBuilt, InjectionsFound
  <2>2. layouts[l].real = CreatePipelineLayout(s, any_add)
    BY <2>1
  <2>3. DOMAIN Roots(layouts[l].real) \subseteq Params
    BY <1>6, <2>2 DEF ParamsSuffice
  <2>4. QED
    BY <1>6, <1>7, <2>3, InjectedFacts
<1>8. ASSUME NEW class \in Range(Classes), NEW other \in Range(Classes),
             injections[l][class] # 0, injections[l][class] = injections[l][other]
      PROVE  class = other
  <2>1. InjectedParam(InjectedRange(class)) = InjectedParam(InjectedRange(other))
    BY <1>7, <1>8
  <2>2. InjectedRange(class) = InjectedRange(other)
    BY <2>1, PushNotStatic
  <2>3. QED
    BY <2>2, InjectedRangeIs
<1>9. ASSUME NEW b \in r.wants
      PROVE  /\ b.type \in Range(Classes) /\ injections[l][b.type] # 0
             /\ ParamOf(l, b) = injections[l][b.type]
             /\ InInjectedRange(b) /\ b.reg \in Nat
             /\ list.args[t][injections[l][b.type]] = TableOf(r, injections[l][b.type])
  <2>1. /\ b.type \in Range(Classes) /\ injections[l][b.type] # 0
        /\ ParamOf(l, b) = injections[l][b.type]
        /\ InInjectedRange(b) /\ b.reg \in Nat
    BY <1>5 DEF Bindable, ParamOf
  <2>2. DrawBinding(l, b) \in r.bindings /\ DrawBinding(l, b).param = injections[l][b.type]
    BY <1>5, <2>1 DEF DrawBinding
  <2>3. QED
    BY <1>3, <1>7, <2>1, <2>2
<1>10. ASSUME NEW b \in r.wants PROVE Reads(t, b, b.handle)
  <2>1. PICK i, g : i = injections[l][b.type] /\ g = InjectedRange(b.type)
    OBVIOUS
  <2>2. /\ i \in DOMAIN Roots(layouts[l].real) /\ i \in Params
        /\ Roots(layouts[l].real)[i].ranges = <<g>>
    BY <1>7, <1>9, <2>1, PushNotStatic
  <2>3. g \in Range(Roots(layouts[l].real)[i].ranges)
    BY <2>2 DEF Range
  <2>4. /\ g.type = b.type /\ g.space = b.space /\ b.reg \in g.reg..(g.reg + g.count - 1)
        /\ g.reg = Injected[b.type].base
    BY <1>9, <2>1, InjectedRangeIs DEF InInjectedRange
  <2>5. PICK T : T = TableOf(r, i)
    OBVIOUS
  <2>6. list.args[t][i] = T
    BY <1>9, <2>1, <2>5
  <2>7. T \notin Tables \cup {Null}
    <3>1. T = [k \in DOMAIN T |-> T[k]]
      BY <2>5 DEF TableOf
    <3>2. QED
      BY <3>1, AtomsApart
  <2>8. b.reg - g.reg + 1 \in DOMAIN T /\ T[b.reg - g.reg + 1] = b.handle
    <3>1. i = ParamOf(LayoutOf[r.pipeline], b)
      BY <1>2, <1>9, <2>1
    <3>2. /\ b.reg - Injected[b.type].base + 1 \in DOMAIN TableOf(r, i)
          /\ TableOf(r, i)[b.reg - Injected[b.type].base + 1] = b.handle
      BY <1>3, <1>4, <3>1, TableHolds
    <3>3. QED
      BY <2>4, <2>5, <3>2
  <2>9. QED
    BY <1>3, <2>2, <2>3, <2>4, <2>6, <2>7, <2>8 DEF Reads
<1>11. ASSUME NEW class \in Range(Classes), NEW mine,
              mine = {b.handle : b \in {w \in r.wants : w.type = class}},
              injections[l][class] # 0, mine # {}
       PROVE  Range(list.args[t][injections[l][class]]) \subseteq mine
  <2>1. PICK b \in r.wants : b.type = class
    BY <1>11
  <2>2. PICK i : i = injections[l][class]
    OBVIOUS
  <2>3. list.args[t][i] = TableOf(r, i) /\ i = ParamOf(l, b)
    BY <1>9, <2>1, <2>2
  <2>4. ASSUME NEW h \in Range(TableOf(r, i)) PROVE h \in mine
    <3>1. PICK a \in r.wants : h = a.handle /\ ParamOf(l, a) = i
      BY <1>2, <1>3, <1>4, <2>3, TableHolds
    <3>2. a.type = class
      BY <1>8, <1>9, <1>11, <2>2, <3>1
    <3>3. QED
      BY <1>11, <3>1, <3>2
  <2>5. QED
    BY <2>2, <2>3, <2>4
<1>12. ASSUME NEW class \in Range(Classes), NEW i, i = injections[list.root[call.at]][class],
              NEW mine, mine = {b.handle : b \in {w \in list.pipe.wants : w.type = class}},
              i # 0, mine # {}
       PROVE  Range(list.args[call.at][i]) \subseteq mine
  <2>1. /\ i = injections[l][class] /\ mine = {b.handle : b \in {w \in r.wants : w.type = class}}
        /\ injections[l][class] # 0
    BY <1>2, <1>3, <1>12
  <2>2. Range(list.args[t][injections[l][class]]) \subseteq mine
    BY <1>11, <1>12, <2>1
  <2>3. QED
    BY <1>2, <2>1, <2>2
<1>13. list.heaps = "reshade" /\ \A b \in list.pipe.wants : Reads(call.at, b, b.handle)
  BY <1>2, <1>3, <1>10
<1>14. QED
  BY <1>12, <1>13 DEF DescriptorsReachShader

(* A draw with a replacement reads every resource its recipes added at the *)
(* register they gave it, and a table of the add-on holds no descriptor of *)
(* another class (BuildBindings, OnInitPipelineLayout, PushD3D12,          *)
(* HandleDraw); of pipelines whose shaders agree on the registers.  The    *)
(* run with shaders that do not shows that it takes the hypothesis.        *)
THEOREM DescriptorsReachShaderHolds ==
  ASSUME HandlesAreAtoms, ParamsSuffice, StagesAgree
  PROVE  Spec => []DescriptorsReachShader
<1>1. Init => DInv
  BY DInit
<1>2. DInv /\ [Next]_vars => DInv'
  BY DNext
<1>3. DInv => DescriptorsReachShader
  BY DescriptorsReach
<1>4. QED
  BY <1>1, <1>2, <1>3, PTL DEF Spec
=============================================================================
