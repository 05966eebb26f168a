------------------------------- MODULE Sm5Rule -------------------------------
(***************************************************************************)
(* How an SM5 rule finds the instructions it rewrites and where its action *)
(* goes (dxp/sm5/step: ApplyRuleStep.cpp and common/Match.cpp).            *)
(*                                                                         *)
(* A program is the sequence of its opcodes: operands, and what a pattern  *)
(* says of them, are left out, so that a pattern is an opcode.  Positions  *)
(* count from 1, the offsets and the insert index of a rule from 0.        *)
(*                                                                         *)
(* A rule is a record: match, the sequence of its patterns; match_mode;    *)
(* rewrite_mode; insert_index; start_offset and end_offset of its range;   *)
(* emit, in which at most one entry is a blob: [before, blob, after], with *)
(* blob = 0 for none; and export, whether an operand has an export_as.     *)
(***************************************************************************)
EXTENDS Integers, Sequences

MatchModes == {"first", "last", "match_all"}
RewriteModes == {"none", "replace", "replace_range", "before", "after", "before_last_return"}

Windows == [first : Nat \ {0}, last : Nat \ {0}]

(* CollectMatches, CollectSequenceMatches: matches may overlap.            *)
SequenceMatches(code, match) ==
  {[first |-> i, last |-> i + Len(match) - 1] :
     i \in {j \in 1 .. Len(code) - Len(match) + 1 :
              \A k \in DOMAIN match : code[j + k - 1] = match[k]}}

(* CollectWindowMatches: from each start to the nearest end.               *)
WindowMatches(code, start, end) ==
  {w \in [first : DOMAIN code, last : DOMAIN code] :
     /\ w.first <= w.last
     /\ code[w.first] = start /\ code[w.last] = end
     /\ \A k \in w.first .. w.last - 1 : code[k] # end}

(* SelectMatchIndices.  Matches have distinct starts, in whose order they  *)
(* are collected.                                                          *)
Selected(matches, mode) ==
  {w \in matches : \A v \in matches :
     CASE mode = "first" -> w.first <= v.first
       [] mode = "last" -> v.first <= w.first
       [] OTHER -> TRUE}

-----------------------------------------------------------------------------
(* Actions: of is the match an action stands for, and first its position.  *)

Length(w) == w.last - w.first + 1

(* ResolveReplacementRange succeeds.                                       *)
RangeOK(rule, w) ==
  /\ rule.start_offset >= 0 /\ rule.end_offset >= -1
  /\ rule.start_offset < Length(w) /\ rule.end_offset < Length(w)
  /\ rule.end_offset >= 0 => rule.start_offset <= rule.end_offset

(* The insert index that ResolveInsertAnchorIndex compares with the window *)
(* although it counts from the program's start.                            *)
InsertIndex(rule, w) ==
  IF rule.rewrite_mode = "after" /\ rule.insert_index < 0 THEN w.last - 1
  ELSE rule.insert_index

(* Mutant: a negative insert index is not refused.                         *)
Mut_Resolves(rule, w) ==
  CASE rule.rewrite_mode = "replace" -> TRUE
    [] rule.rewrite_mode = "replace_range" -> RangeOK(rule, w)
    [] OTHER -> InsertIndex(rule, w) < Length(w)

(* ResolveRangeReplacement succeeds.                                       *)
Resolves(rule, w) ==
  CASE rule.rewrite_mode = "replace" -> TRUE
    [] rule.rewrite_mode = "replace_range" -> RangeOK(rule, w)
    [] OTHER -> InsertIndex(rule, w) >= 0 /\ InsertIndex(rule, w) < Length(w)

Replace(w, of, emit) ==
  [type |-> "replace", first |-> w.first, last |-> w.last, of |-> of, emit |-> emit]
InsertBefore(i, of, emit) ==
  [type |-> "insert", first |-> i, last |-> i, of |-> of, emit |-> emit]

(* The action of a rule that emits the instructions of emit for match w.   *)
RuleAction(rule, w, emit) ==
  CASE rule.rewrite_mode = "replace" -> Replace(w, w, emit)
    [] rule.rewrite_mode = "replace_range" ->
         Replace([first |-> w.first + rule.start_offset,
                  last |-> IF rule.end_offset < 0 THEN w.last ELSE w.first + rule.end_offset],
                 w, emit)
    [] rule.rewrite_mode = "before" -> InsertBefore(InsertIndex(rule, w) + 1, w, emit)
    [] OTHER -> InsertBefore(InsertIndex(rule, w) + 2, w, emit)

(* The action of emit_blob for window w and its blob.                      *)
BlobAction(mode, w, blob) ==
  CASE mode = "replace" -> Replace(w, w, blob)
    [] mode = "before" -> InsertBefore(w.first, w, blob)
    [] OTHER -> InsertBefore(w.last + 1, w, blob)
=============================================================================
