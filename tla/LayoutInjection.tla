---------------------------- MODULE LayoutInjection ----------------------------
(***************************************************************************)
(* What the add-on appends to a D3D12 root signature (runtime.cpp, "Layout *)
(* injection"): one descriptor table each for the views and samplers the   *)
(* recipes add, in a register space of its own.                            *)
(*                                                                         *)
(* A parameter is [kind, words, ranges]: "constants" (push_constants, of   *)
(* `words' DWORDs), "push" (push_descriptors, of one range), "table"       *)
(* (descriptor_table and push_descriptors_with_ranges), "static_table" and *)
(* "static" (the table and the push kind with static samplers).  A range   *)
(* is [type, reg, space, count, visibility, static].  Indices count from 1,*)
(* and 0 stands for the code's -1.                                         *)
(***************************************************************************)
EXTENDS Integers, Sequences, FiniteSets, SequencesExt, FiniteSetsExt

CONSTANTS
  Injected,    \* [space, srv, uav, sampler], the classes as [base, count]
  InjectMode,  \* "auto", "always", "never"
  Unbounded    \* the count UINT32_MAX

Classes == <<"srv", "uav", "sampler">>

Types == {"sampler", "cbv", "srv", "buffer_srv", "acceleration", "uav", "buffer_uav", "other"}
Registers ==
  [type : Types, reg : Nat, space : Nat, count : Nat \cup {Unbounded},
   visibility : {"all", "stage"}, static : BOOLEAN]
Kinds == {"constants", "push", "table", "static_table", "static"}
Parameters == [kind : Kinds, words : Nat, ranges : Seq(Registers)]

ASSUME InjectionAssumption ==
  /\ Injected.space \in Nat
  /\ \A class \in Range(Classes) : Injected[class] \in [base : Nat, count : Nat]
  /\ InjectMode \in {"auto", "always", "never"}
  /\ Unbounded \notin Nat

ShouldInject(any_add) == InjectMode = "always" \/ (InjectMode = "auto" /\ any_add)

ClassOf(type) ==
  CASE type = "sampler" -> "s"
    [] type = "cbv" -> "b"
    [] type \in {"srv", "buffer_srv", "acceleration"} -> "t"
    [] type \in {"uav", "buffer_uav"} -> "u"
    [] OTHER -> "none"

InjectedRange(class) ==
  [type |-> class, reg |-> Injected[class].base, space |-> Injected.space,
   count |-> Injected[class].count, visibility |-> "all", static |-> FALSE]

InjectedRanges ==
  LET add(class) == IF Injected[class].count # 0 THEN <<InjectedRange(class)>> ELSE <<>>
  IN add("srv") \o add("uav") \o add("sampler")

EndsBehind(range, register) == range.count = Unbounded \/ register < range.reg + range.count

(* Mutant: an unbounded range is taken for one register.                   *)
Mut_Overlaps(a, b) ==
  LET end(r) == r.reg + (IF r.count = Unbounded THEN 1 ELSE r.count)
  IN /\ ClassOf(a.type) = ClassOf(b.type) /\ a.space = b.space
     /\ a.count # 0 /\ b.count # 0 /\ a.reg < end(b) /\ b.reg < end(a)

Overlaps(a, b) ==
  /\ ClassOf(a.type) = ClassOf(b.type) /\ a.space = b.space
  /\ a.count # 0 /\ b.count # 0
  /\ EndsBehind(b, a.reg) /\ EndsBehind(a, b.reg)

\* A root descriptor takes two DWORDs, a table one.
RootDescriptor(range) ==
  range.count = 1 /\ range.type \in {"cbv", "buffer_srv", "buffer_uav", "acceleration"}

\* A parameter that ReShade turns into static samplers.
StaticOnly(param) ==
  /\ param.kind = "static" /\ param.ranges # <<>>
  /\ \A r \in Range(param.ranges) : r.type = "sampler" /\ r.static

Dwords(param) ==
  CASE param.kind = "constants" -> param.words
    [] param.kind = "push" ->
         IF Head(param.ranges).count = 0 THEN 0
         ELSE IF RootDescriptor(Head(param.ranges)) THEN 2 ELSE 1
    [] OTHER -> IF param.ranges = <<>> \/ StaticOnly(param) THEN 0 ELSE 1

Cost(params) ==
  LET sum[i \in 0..Len(params)] == IF i = 0 THEN 0 ELSE sum[i - 1] + Dwords(params[i])
  IN sum[Len(params)]

MaxDwords == 64

Injects(params) ==
  /\ params # <<>> /\ InjectedRanges # <<>>
  /\ \A p \in Range(params) : \A r \in Range(p.ranges) : \A ours \in Range(InjectedRanges) :
       ~Overlaps(r, ours)
  /\ Cost(params) + Len(InjectedRanges) <= MaxDwords

InjectedParam(range) == [kind |-> "push", words |-> 0, ranges |-> <<range>>]

(* Mutant: the tables go behind the static samplers.                       *)
Mut_InsertionIndex(params) == Len(params) + 1

\* In front of the static samplers.
InsertionIndex(params) ==
  Min({i \in DOMAIN params : StaticOnly(params[i])} \cup {Len(params) + 1})

\* OnCreatePipelineLayout: the parameters the layout is created with.
CreatePipelineLayout(params, any_add) ==
  IF ShouldInject(any_add) /\ Injects(params)
    THEN SubSeq(params, 1, InsertionIndex(params) - 1)
         \o [k \in DOMAIN InjectedRanges |-> InjectedParam(InjectedRanges[k])]
         \o SubSeq(params, InsertionIndex(params), Len(params))
    ELSE params

\* OnInitPipelineLayout: where the layout has the add-on's tables.
FindInjection(params) ==
  [class \in Range(Classes) |->
     Max({i \in DOMAIN params : /\ params[i].kind = "push"
                                /\ Head(params[i].ranges) = InjectedRange(class)
                                /\ Injected[class].count # 0} \cup {0})]
================================================================================
