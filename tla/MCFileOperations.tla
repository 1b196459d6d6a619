-------------------------- MODULE MCFileOperations --------------------------
(***************************************************************************)
(* Two spellings of one name, a name that is also the parent of a third    *)
(* path, an unrelated name and one that is not portable; two records with  *)
(* one digest (they differ in mode) and one with another.                  *)
(*                                                                         *)
(* Beside it, ApplySkillOperations on three packages, one with an invalid  *)
(* identifier.  The two loops share nothing, so a behaviour runs one of    *)
(* them (side) and the other stays at its start.                           *)
(***************************************************************************)
EXTENDS FileOperations, SkillOperations

CONSTANTS pa, pA, pax, pb, pbad, fa, fax, fb, fbad, r1, r2, r3, d1, d2, s1, s2, e1, e2

MCFold == [p \in Paths |-> CASE p \in {pa, pA} -> fa [] p = pax -> fax
                                [] p = pb -> fb [] OTHER -> fbad]
MCBelow == {<<fax, fa>>}
MCDigestOf == [r \in Records |-> IF r = r3 THEN d2 ELSE d1]
MCSkillDigestOf == [s \in Descriptors |-> IF s = s2 THEN e2 ELSE e1]

----------------------------------------------------------------------------
VARIABLE side

MCInit ==
    /\ Init /\ SkillInit
    /\ \/ side = "files" /\ skills = NoSkills
       \/ side = "skills" /\ tree = Empty

MCNext ==
    \/ side = "files" /\ Next /\ UNCHANGED <<side, skillVars>>
    \/ side = "skills" /\ SkillNext /\ UNCHANGED <<side, vars>>

MCSpec == MCInit /\ [][MCNext]_<<side, vars, skillVars>>
=============================================================================
