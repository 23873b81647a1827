--------------------------------- MODULE Cwa ---------------------------------
(***************************************************************************)
(* tools/eos_cwa.py, the assembler: the passes that give every item its    *)
(* address and size while short branches grow to long ones (layout), and   *)
(* the pass that emits the code (assemble).                                *)
(*                                                                         *)
(* A program is a sequence of items: labels, branches, data and the other  *)
(* instructions, which are n bytes whatever the addresses are, alignment,  *)
(* and padding up to an offset (times N-($-$$) db 0).  A pass takes one    *)
(* step for every item.  The loop ends as its code does: with the code,    *)
(* or with the assertion or exception that it raises.                      *)
(***************************************************************************)
EXTENDS Integers, Sequences, FiniteSets

CONSTANTS
  Labels,              \* the names of labels
  Externs,             \* those declared extern
  Programs,            \* the programs to assemble
  ORG,                 \* the address of the first byte
  ShortMin, ShortMax,  \* the reach of a short branch, -128 and 127
  MAX_PASSES,          \* 20
  Unknown              \* the address of a label not met yet

Item ==
  [kind : {"label"}, name : Labels]
    \cup [kind : {"jmp", "jcc"}, to : Labels, bits : {16, 32}]
    \cup [kind : {"bytes", "align", "pad"}, n : Nat]

ASSUME CwaAssumption ==
  /\ Externs \subseteq Labels /\ Unknown \notin Int
  /\ ORG \in Nat /\ ShortMin \in Int /\ ShortMax \in Int
  /\ MAX_PASSES \in Nat \ {0}
  /\ Programs \subseteq Seq(Item)
  /\ \A p \in Programs : \A k \in DOMAIN p : p[k].kind = "align" => p[k].n > 0

VARIABLES
  items,        \* self.items
  phase,        \* "layout", "emit", "done", or what it ended with
  passes,       \* the passes completed
  at, off,      \* the item of the step and its offset
  syms,         \* the labels in the pass
  self_syms,    \* the labels after the pass before
  stable,       \* no label has moved in the pass
  total,        \* self.total
  addr, size,   \* of each item
  rel8,         \* which branches are still short
  code,         \* the number of bytes emitted
  relocs        \* the relocations, [off, name]

cwaVars == <<items, phase, passes, at, off, syms, self_syms, stable, total,
             addr, size, rel8, code, relocs>>

it       == items[at]
AtEnd    == at = Len(items) + 1
Branches == {k \in DOMAIN items : items[k].kind \in {"jmp", "jcc"}}
-----------------------------------------------------------------------------
(* The sizes of _data_size and _insn_size.                                 *)
DataSize(x, o) ==
  CASE x.kind = "bytes" -> x.n
    [] x.kind = "align" -> IF o % x.n = 0 THEN 0 ELSE x.n - (o % x.n)
    [] x.kind = "pad"   -> IF x.n > o THEN x.n - o ELSE 0

JccSizedAsJmp(x) ==   \* a bug: one size for all long branches
  IF x.bits = 16 THEN 3 ELSE 5

LongSize(x) ==
  CASE x.kind = "jmp" -> (IF x.bits = 16 THEN 3 ELSE 5)
    [] x.kind = "jcc" -> (IF x.bits = 16 THEN 4 ELSE 6)

(* The distance of a short branch at offset o, from its end.               *)
Distance(x, o, s) == s[x.to] - (o + ORG + 2)

InReach(x, o, s) == s[x.to] # Unknown /\ Distance(x, o, s) \in ShortMin .. ShortMax

(* A target that is not met yet counts as in reach, unless it is extern.   *)
StaysFromStart(x, o, s) ==   \* a bug: the distance is taken from the branch's start
  IF s[x.to] = Unknown THEN x.to \notin Externs
                       ELSE Distance(x, o, s) + 2 \in ShortMin .. ShortMax

StaysShort(x, o, s) ==
  IF s[x.to] = Unknown THEN x.to \notin Externs ELSE InReach(x, o, s)

-----------------------------------------------------------------------------
(* _layout_once, a step for each item.                                     *)
Visiting(kinds) == phase = "layout" /\ ~AtEnd /\ it.kind \in kinds

Placed(n) ==
  /\ addr' = [addr EXCEPT ![at] = off]
  /\ size' = [size EXCEPT ![at] = n]
  /\ off' = off + n
  /\ at' = at + 1
  /\ UNCHANGED <<items, phase, passes, self_syms, total, code, relocs>>

LabelUnnoticed ==   \* a bug: a label that moves is not noticed
  /\ Visiting({"label"})
  /\ stable' = (stable /\ syms[it.name] # Unknown)
  /\ syms' = [syms EXCEPT ![it.name] = off + ORG]
  /\ Placed(0)
  /\ UNCHANGED rel8

VisitLabel ==
  /\ Visiting({"label"})
  /\ stable' = (stable /\ syms[it.name] = off + ORG)
  /\ syms' = [syms EXCEPT ![it.name] = off + ORG]
  /\ Placed(0)
  /\ UNCHANGED rel8

VisitData ==
  /\ Visiting({"bytes", "align", "pad"})
  /\ Placed(DataSize(it, off))
  /\ UNCHANGED <<syms, stable, rel8>>

BranchForgets ==   \* a bug: a branch is sized anew in every pass
  /\ Visiting({"jmp", "jcc"})
  /\ rel8' = [rel8 EXCEPT ![at] = StaysShort(it, off, syms)]
  /\ Placed(IF rel8'[at] THEN 2 ELSE LongSize(it))
  /\ UNCHANGED <<syms, stable>>

VisitBranch ==
  /\ Visiting({"jmp", "jcc"})
  /\ rel8' = [rel8 EXCEPT ![at] = @ /\ StaysShort(it, off, syms)]
  /\ Placed(IF rel8'[at] THEN 2 ELSE LongSize(it))
  /\ UNCHANGED <<syms, stable>>

(* The end of a pass, and of the loop of layout over the passes.           *)
Rewind == at' = 1 /\ off' = 0

EndUnbounded ==   \* a bug: the passes are not counted
  /\ phase = "layout" /\ AtEnd
  /\ self_syms' = syms /\ total' = off /\ stable' = TRUE
  /\ phase' = IF stable /\ syms = self_syms THEN "emit" ELSE "layout"
  /\ Rewind
  /\ UNCHANGED <<items, passes, syms, addr, size, rel8, code, relocs>>

EndPass ==
  /\ phase = "layout" /\ AtEnd
  /\ self_syms' = syms /\ total' = off /\ passes' = passes + 1 /\ stable' = TRUE
  /\ \/ stable /\ syms = self_syms /\ phase' = "emit" /\ Rewind
     \/ /\ ~(stable /\ syms = self_syms)
        /\ IF passes + 1 < MAX_PASSES
             THEN phase' = "layout" /\ Rewind
             ELSE phase' = "layout did not converge" /\ UNCHANGED <<at, off>>
  /\ UNCHANGED <<items, syms, addr, size, rel8, code, relocs>>

-----------------------------------------------------------------------------
(* assemble, a step for each item.  The data is not compared with its      *)
(* size, an instruction is.                                                *)
Emitting(kinds) == phase = "emit" /\ ~AtEnd /\ it.kind \in kinds

Raise(error) == phase' = error /\ UNCHANGED <<at, off, code, relocs>>

Emit(n) == phase' = phase /\ at' = at + 1 /\ off' = off + size[at] /\ code' = code + n

EmitLabel ==
  /\ Emitting({"label"})
  /\ at' = at + 1
  /\ UNCHANGED <<phase, off, code, relocs>>

emit_data ==
  /\ Emitting({"bytes", "align", "pad"})
  /\ IF it.kind = "pad" /\ it.n < off
       THEN Raise("negative times")
       ELSE Emit(DataSize(it, off)) /\ UNCHANGED relocs

(* encode, of branches.                                                    *)
EncodedLong(x) ==
  CASE x.kind = "jmp" /\ x.to \in Externs /\ syms[x.to] = Unknown -> 5
    [] x.kind = "jmp" /\ ~(x.to \in Externs /\ syms[x.to] = Unknown) -> LongSize(x)
    [] x.kind = "jcc" -> 6

encode ==
  LET external == syms[it.to] = Unknown /\ it.to \in Externs
      n        == IF rel8[at] /\ ~external THEN 2 ELSE EncodedLong(it)
  IN  /\ Emitting({"jmp", "jcc"})
      /\ CASE syms[it.to] = Unknown /\ ~external -> Raise("undefined symbol")
           [] external /\ it.kind = "jcc" -> Raise("external jcc not supported")
           [] rel8[at] /\ syms[it.to] # Unknown /\ ~InReach(it, off, syms) -> Raise("rel8 out of range")
           [] OTHER ->
                IF n # size[at]
                  THEN Raise("size drift")
                  ELSE /\ Emit(n)
                       /\ relocs' = IF external THEN relocs \cup {[off |-> off + 1, name |-> it.to]}
                                                ELSE relocs

EmitEnd == phase = "emit" /\ AtEnd /\ Raise(IF off = total THEN "done" ELSE "total")

EmitStep ==
  /\ EmitLabel \/ emit_data \/ encode \/ EmitEnd
  /\ UNCHANGED <<items, passes, syms, self_syms, stable, total, addr, size, rel8>>

-----------------------------------------------------------------------------
CwaInit ==
  /\ items \in Programs
  /\ phase = "layout" /\ passes = 0 /\ at = 1 /\ off = 0
  /\ syms = [l \in Labels |-> Unknown] /\ self_syms = syms /\ stable = TRUE
  /\ total = 0
  /\ addr = [k \in DOMAIN items |-> 0] /\ size = [k \in DOMAIN items |-> 0]
  /\ rel8 = [k \in DOMAIN items |-> TRUE]
  /\ code = 0 /\ relocs = {}

CwaNext == VisitLabel \/ VisitData \/ VisitBranch \/ EndPass \/ EmitStep

CwaSpec == CwaInit /\ [][CwaNext]_cwaVars /\ WF_cwaVars(CwaNext)
-----------------------------------------------------------------------------
Emitted == phase \notin {"layout", "layout did not converge"}
Labelled(l) == {k \in DOMAIN items : items[k].kind = "label" /\ items[k].name = l}

(* Whatever order the branches have grown in, the layout that is used is   *)
(* one layout: every item starts where the one before ends, a label is at  *)
(* its address, a short branch reaches its target from where it is, and a  *)
(* label defined twice is not taken for one of the two.                    *)
LayoutConsistent ==
  Emitted =>
    /\ \A k \in DOMAIN items : addr[k] = IF k = 1 THEN 0 ELSE addr[k - 1] + size[k - 1]
    /\ \A k \in DOMAIN items : items[k].kind = "label" => syms[items[k].name] = addr[k] + ORG
    /\ \A k \in Branches :
         rel8[k] /\ syms[items[k].to] # Unknown => InReach(items[k], addr[k], syms)
    /\ \A l \in Labels : Labelled(l) = {} => syms[l] = Unknown

(* A program without labels defined twice needs at most two passes more    *)
(* than it has branches: each pass but the first and the last makes one    *)
(* longer.  Programs of up to MAX_PASSES - 2 branches always converge.     *)
Unambiguous == \A l \in Labels : Cardinality(Labelled(l)) <= 1
PassesBounded == Unambiguous => passes <= Cardinality(Branches) + 2

(* The emitted bytes are where the layout has them; the assertions of      *)
(* assemble fail only for what the program text is to blame for.           *)
CodeMatchesLayout ==
  /\ phase = "emit" => code = off /\ (~AtEnd => off = addr[at]) /\ (AtEnd => off = total)
  /\ phase \notin {"rel8 out of range", "total"}

(* "size drift": what is encoded is as long as the layout has it.          *)
NoSizeDrift == phase # "size drift"

(* The assembler always ends.                                              *)
Terminates == <>(phase \notin {"layout", "emit"})
=============================================================================
