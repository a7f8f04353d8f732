------------------------------ MODULE Groups ------------------------------
(***************************************************************************)
(* What C promises of conditional groups and of macro definitions: every   *)
(* group of #if ... #endif takes the first of its branches whose condition *)
(* holds, and a name is the macro it was last defined as.                  *)
(***************************************************************************)
EXTENDS Integers, Sequences, SequencesExt

CONSTANTS MacroNames, Undefined,
          Lines        \* the lines a file may have

VARIABLES groups,      \* what each open group does: see Entered
          table        \* MacroNames -> macro or Undefined

groupVars == <<groups, table>>

Active == \A k \in DOMAIN groups : groups[k] = "taking"

(* A group is "dead" when it is in a branch that is not taken; otherwise   *)
(* it is waiting for a branch to take, taking one, or done with it.        *)
Entered(holds) == IF holds THEN "taking" ELSE "waiting"

Open(holds) ==
  /\ groups' = Append(groups, IF Active THEN Entered(holds) ELSE "dead")
  /\ UNCHANGED table

Branch(holds) ==
  /\ groups' = IF groups = <<>> THEN groups
               ELSE [groups EXCEPT ![Len(groups)] =
                       CASE @ = "taking"  -> "done"
                         [] @ = "waiting" -> Entered(holds)
                         [] OTHER -> @]
  /\ UNCHANGED table

Close ==
  /\ groups' = IF groups = <<>> THEN groups ELSE Front(groups)
  /\ UNCHANGED table

Define(name, macro) ==
  /\ table' = IF Active THEN [table EXCEPT ![name] = macro] ELSE table
  /\ UNCHANGED groups

(* What the line l asks for; holds is the value of its condition, if it is *)
(* an #if or #elif.                                                        *)
Follows(l, holds) ==
  \/ l.kind = "if"     /\ Open(holds)
  \/ l.kind = "ifdef"  /\ Open(table[l.name] # Undefined)
  \/ l.kind = "ifndef" /\ Open(table[l.name] = Undefined)
  \/ l.kind = "elif"   /\ Branch(holds)
  \/ l.kind = "else"   /\ Branch(TRUE)
  \/ l.kind = "endif"  /\ Close
  \/ l.kind = "define" /\ Define(l.name, l.macro)
  \/ l.kind = "undef"  /\ Define(l.name, Undefined)

GroupsInit == groups = <<>> /\ table = [n \in MacroNames |-> Undefined]
GroupsNext == \E l \in Lines, holds \in BOOLEAN : Follows(l, holds)
GroupsSpec == GroupsInit /\ [][GroupsNext]_groupVars

==========================================================================
