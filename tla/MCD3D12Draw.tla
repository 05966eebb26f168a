------------------------------ MODULE MCD3D12Draw ------------------------------
(* An instance of D3D12Draw for TLC: a graphics and a compute pipeline with a *)
(* root signature each, and the root signatures of MCSignatures.              *)
EXTENDS D3D12Draw

CONSTANTS g, c, L1, L2, T1, T2

MCLayoutOf == [p \in Pipelines |-> IF p = g THEN L1 ELSE L2]

MCBindsAt == [l \in Layouts |-> IF l = L1 THEN {"graphics"} ELSE BindPoints]

\* t1-t3 and s0-s1 of space 100.
MCInjected ==
  [space |-> 100, srv |-> [base |-> 1, count |-> 3], uav |-> [base |-> 0, count |-> 0],
   sampler |-> [base |-> 0, count |-> 2]]

R(type, reg, space, count) ==
  [type |-> type, reg |-> reg, space |-> space, count |-> count, visibility |-> "all",
   static |-> FALSE]
Table(range) == [kind |-> "table", words |-> 0, ranges |-> <<range>>]
Constants(words) == [kind |-> "constants", words |-> words, ranges |-> <<R("cbv", 0, 0, 1)>>]
Static == [kind |-> "static", words |-> 0, ranges |-> <<[R("sampler", 0, 0, 1) EXCEPT !.static = TRUE]>>]

MCSignatures ==
  [l \in Layouts |->
     IF l = L1
       THEN {<<Table(R("srv", 0, 0, 4)), Table(R("sampler", 0, 0, 1)), Static>>,  \* two tables, a static sampler
             <<Table(R("srv", 0, 100, Unbounded))>>}                              \* our space is the game's
       ELSE {<<Table(R("srv", 0, 0, 1)), Constants(61)>>,                         \* room for two more DWORDs
             <<Table(R("srv", 0, 0, 1)), Constants(62)>>}]                        \* and for one

B(type, reg, space, handle) == [type |-> type, reg |-> reg, space |-> space, handle |-> handle]

V1 == B("srv", 1, 100, "v1")
MCWants ==
  [p \in Pipelines |->
     IF p = g
       THEN {<<{}>>,                                                                  \* code changes only
             <<{V1}, {V1, B("srv", 3, 100, "v3"), B("sampler", 0, 100, "s0")}>>,      \* two shaders
             <<{B("srv", 1, 0, "v1")}>>}                                              \* another space
       ELSE {<<{B("sampler", 1, 100, "s1")}>>, <<{V1, B("srv", 1, 100, "v2")}>>}]     \* one register twice

\* Two shaders that have one handle at different registers, each its lowest free one.
MCStageWants ==
  [p \in Pipelines |-> IF p = g THEN {<<{V1, B("srv", 2, 100, "v2")}, {B("srv", 1, 100, "v2")}>>} ELSE {}]
================================================================================
