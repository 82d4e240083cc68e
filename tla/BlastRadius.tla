---------------------------- MODULE BlastRadius ----------------------------
(***************************************************************************)
(* The resources a work claim names (its blast radius) and when two of     *)
(* them overlap: normalize_resource, resources_overlap and _sets_overlap   *)
(* of work_claims.py.                                                      *)
(*                                                                         *)
(* A resource is written kind:value.  A value is modelled by the sequence  *)
(* of its "/"-separated segments, exactly value.split("/"): the leading    *)
(* segment of an absolute path is the empty segment, a doubled or trailing *)
(* slash is an empty segment further on.  Backslashes are slashes by then. *)
(***************************************************************************)
EXTENDS Sequences, Naturals

CONSTANTS
  Kinds,      \* the resource kinds in use (file, host, service, ...)
  Segments,   \* the non-empty path segments in use, in every letter case
  Casefold    \* str.casefold on segments, a function on Segments

ASSUME CasefoldAssumption ==
  /\ Casefold \in [Segments -> Segments]
  /\ \A s \in Segments : Casefold[Casefold[s]] = Casefold[s]

\* The empty segment and the two segments a value may not contain.
NoName == ""
DotSegments == {".", ".."}

\* Comparison of one segment ignores its letter case.
Fold(s) == IF s \in Segments THEN Casefold[s] ELSE s

(***************************************************************************)
(* normalize_resource: refuse an empty value and the dot segments, drop    *)
(* every empty segment but the first, fold the case of what is left.       *)
(***************************************************************************)
Accepts(value) ==
  /\ value # <<NoName>>
  /\ \A k \in DOMAIN value : value[k] \notin DotSegments

\* Mutated form: the leading slash of an absolute path is lost too.
KeepNone(value) ==
  LET Named(s) == s # NoName
  IN SelectSeq(value, Named)

Collapse(value) ==
  LET Named(s) == s # NoName
  IN <<Head(value)>> \o SelectSeq(Tail(value), Named)

Normalize(value) ==
  LET kept == Collapse(value)
  IN [k \in DOMAIN kept |-> Fold(kept[k])]

(***************************************************************************)
(* resources_overlap on two normalized resources: same kind, and equal or  *)
(* one value a proper segment-wise prefix of the other (_contains).        *)
(***************************************************************************)
Contains(parent, child) ==
  /\ Len(parent) < Len(child)
  /\ SubSeq(child, 1, Len(parent)) = parent

ResourcesOverlap(left, right) ==
  /\ left.kind = right.kind
  /\ \/ left.value = right.value
     \/ Contains(left.value, right.value)
     \/ Contains(right.value, left.value)

SetsOverlap(left, right) ==
  \E a \in left, b \in right : ResourcesOverlap(a, b)
=============================================================================
