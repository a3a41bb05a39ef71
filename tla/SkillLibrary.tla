---------------------------- MODULE SkillLibrary ----------------------------
(***************************************************************************)
(* What the console promises of the skills table of a database             *)
(* (console/README.md, "Skills"): it is seeded whole into an empty table,  *)
(* an edit changes the text of a row that is there, an import adds a name  *)
(* that is not, and only imported skills can be deleted; each of these in  *)
(* one indivisible step.                                                   *)
(***************************************************************************)
CONSTANTS
  Skill,           \* names
  BuiltIn,         \* the names of the harness's own files
  Text,            \* contents
  OnDisk,          \* the content of the harness's files
  None             \* no such row

VARIABLE lib       \* the rows, by name

Empty  == [n \in Skill |-> None]
Seeded == [n \in Skill |->
             IF n \in BuiltIn THEN [source |-> "built-in", text |-> OnDisk] ELSE None]

Init == lib \in {Empty, Seeded}

Seed == lib = Empty /\ lib' = Seeded

Edit(n, t) ==
  /\ lib[n] # None
  /\ lib' = [lib EXCEPT ![n].text = t]

Import(n, t) ==
  /\ lib[n] = None
  /\ lib' = [lib EXCEPT ![n] = [source |-> "imported", text |-> t]]

Delete(n) ==
  /\ lib[n] # None /\ lib[n].source = "imported"
  /\ lib' = [lib EXCEPT ![n] = None]

Next ==
  \/ Seed
  \/ \E n \in Skill : Delete(n) \/ \E t \in Text : Edit(n, t) \/ Import(n, t)

Spec == Init /\ [][Next]_lib

=============================================================================
