------------------------------ MODULE CommandList ------------------------------
(***************************************************************************)
(* What a D3D12 command list promises a game that runs without the add-on: *)
(* the pipeline it set last, a root signature for graphics and one for     *)
(* compute, and the descriptor tables it set since that root signature.    *)
(* A draw changes none of them.  D3D12Draw implements this module.         *)
(***************************************************************************)
EXTENDS Integers, Sequences

CONSTANTS
  Pipelines,   \* the game's pipelines
  Layouts,     \* the game's root signatures
  Params,      \* the positions of root parameters
  Tables,      \* the game's descriptor tables
  Null

BindPoints == {"graphics", "compute"}

VARIABLES
  pipe,   \* the pipeline
  root,   \* the root signature of each bind point
  args,   \* the table at each parameter of it
  call    \* the draw of the game's last call, if it was one

vars == <<pipe, root, args, call>>

NoDraw == [op |-> "none"]
NoArgs == [i \in Params |-> Null]

Init ==
  /\ pipe = Null
  /\ root = [t \in BindPoints |-> Null]
  /\ args = [t \in BindPoints |-> NoArgs]
  /\ call = NoDraw

SetPipeline(p) == pipe' = p /\ call' = NoDraw /\ UNCHANGED <<root, args>>

\* The root signature that is set already keeps its tables.
SetRootSignature(t, l) ==
  /\ root' = [root EXCEPT ![t] = l]
  /\ args' = IF root[t] = l THEN args ELSE [args EXCEPT ![t] = NoArgs]
  /\ call' = NoDraw
  /\ UNCHANGED pipe

SetTables(t, first, tables) ==
  /\ args' = [args EXCEPT ![t] = [i \in Params |->
                IF i \in first..(first + Len(tables) - 1) THEN tables[i - first + 1] ELSE @[i]]]
  /\ call' = NoDraw
  /\ UNCHANGED <<pipe, root>>

SetHeaps == call' = NoDraw /\ UNCHANGED <<pipe, root, args>>

Use(t) == call' = [op |-> "draw", at |-> t] /\ UNCHANGED <<pipe, root, args>>

Reset ==
  /\ pipe' = Null
  /\ root' = [t \in BindPoints |-> Null]
  /\ args' = [t \in BindPoints |-> NoArgs]
  /\ call' = NoDraw

Next ==
  \/ \E p \in Pipelines : SetPipeline(p)
  \/ \E t \in BindPoints, l \in Layouts : SetRootSignature(t, l)
  \/ \E t \in BindPoints, i \in Params, tables \in UNION {[1..n -> Tables] : n \in 1..2} :
       SetTables(t, i, tables)
  \/ SetHeaps
  \/ \E t \in BindPoints : Use(t)
  \/ Reset

Spec == Init /\ [][Next]_vars
================================================================================
