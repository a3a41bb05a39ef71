------------------------------ MODULE Console ------------------------------
(***************************************************************************)
(* Console processes (console/server.js, console/db.js) from the bind of   *)
(* their port to the end of their boot, and the requests that manage the   *)
(* skill library, which a console answers from the moment it listens.      *)
(*                                                                         *)
(* A step is one attempt to bind, or one query and the code that follows   *)
(* it up to the next query.  All consoles bind the same address.  The ids  *)
(* of rows are left out, names being unique; the overrides are those of    *)
(* one run; the read that fetches a row for the answer to a write that has *)
(* been made is part of the write.                                         *)
(***************************************************************************)
EXTENDS Integers, Sequences, FiniteSets

CONSTANTS
  Console,         \* processes
  PORT,            \* the port each of them is told to bind
  MaxPort,         \* the last port there is
  Taken,           \* the ports other programs hold
  MaxTries,        \* PORT_AUTO_MAX_TRIES
  OtherTables,     \* those only the mirror and the logins use, in order
  Request,         \* skill requests; a request's name stands for its content
  Skill, BuiltIn,  \* names, and those of the harness's own files
  OnDisk,          \* the content of the harness's files
  None,
  MaxStarts        \* bound: how often consoles are started

Port == 1..MaxPort

Row == [source : {"built-in", "imported"}, text : Request \cup {OnDisk}]

ASSUME ConsoleAssumption ==
  /\ MaxPort \in Nat /\ MaxTries \in Nat /\ MaxStarts \in Nat
  /\ PORT \in [Console -> Port]
  /\ Taken \subseteq Port
  /\ BuiltIn \subseteq Skill /\ BuiltIn # {}
  /\ OtherTables \in Seq(STRING)
  /\ OnDisk \notin Request
  /\ None \notin Request \cup Console \cup Row

VARIABLES
  PORT_AUTO,       \* whether LIBERTA_CONSOLE_PORT_AUTO is set
  oneDb,           \* whether LIBERTA_CONSOLE_DB or Postgres makes them share
  listener,        \* the console that holds each port
  con,             \* the consoles
  db,              \* the databases
  req,             \* the requests
  starts,
  (* history *)
  early,           \* databases with an import into a library never seeded
  crossed          \* requests whose row has been deleted under them

history == <<early, crossed>>
vars == <<PORT_AUTO, oneDb, listener, con, db, req, starts, history>>

(* What ensureSchema looks for and creates, in that order. *)
Schema == <<"runs", "parent_session_id">> \o OtherTables \o <<"skills", "run_skill_overrides">>
Objects == {Schema[i] : i \in DOMAIN Schema}

(* Mutant: initDb is given the requested port. *)
DbWanted(c) == IF oneDb THEN 0 ELSE PORT[c]

(* resolveDbFile: 0 is the database they all use. *)
Db == 0..MaxPort
DbOf(c) == IF oneDb THEN 0 ELSE con[c].port

Booting   == {"check", "create", "count", "seed"}
Listening == {"serving"} \cup Booting
Open      == {"lookup", "find", "insert", "update"}

(* A request that has not come, or is over: "hollow" if it was answered    *)
(* with success, having changed nothing, and else "done", be the answer    *)
(* success, refusal, failure or none.                                      *)
Closed(pc) == [pc |-> pc, op |-> None, skill |-> None, con |-> None]

Stopped(c, pc) == [pc |-> pc, port |-> PORT[c], tries |-> 0, at |-> 0]

Seeded == [n \in Skill |->
             IF n \in BuiltIn THEN [source |-> "built-in", text |-> OnDisk] ELSE None]

Fresh == [schema |-> {}, skills |-> [n \in Skill |-> None],
          overrides |-> [n \in Skill |-> None]]

(* A database of before lineage was recorded. *)
Legacy == [Fresh EXCEPT !.schema = Objects \ {"parent_session_id"}, !.skills = Seeded]

Init ==
  /\ PORT_AUTO \in BOOLEAN
  /\ oneDb \in BOOLEAN
  /\ listener = [p \in Port |-> None]
  /\ con = [c \in Console |-> Stopped(c, "off")]
  /\ \E d \in {Fresh, Legacy} : db = [i \in Db |-> d]
  /\ req = [r \in Request |-> Closed("new")]
  /\ starts = 0
  /\ early = {} /\ crossed = {}

Names(d) == {n \in Skill : db[d].skills[n] # None}

-----------------------------------------------------------------------------
(* A console's life *)

Start(c) ==
  /\ con[c].pc \in {"off", "exited"}
  /\ starts < MaxStarts
  /\ starts' = starts + 1
  /\ con' = [con EXCEPT ![c].pc = "listen", ![c].tries = MaxTries]
  /\ UNCHANGED <<PORT_AUTO, oneDb, listener, db, req, history>>

(* The process ends, and the requests it was serving with it. *)
Leave(c, pc) ==
  /\ con' = [con EXCEPT ![c] = Stopped(c, pc)]
  /\ listener' = [p \in Port |-> IF listener[p] = c THEN None ELSE listener[p]]
  /\ req' = [r \in Request |->
               IF req[r].con = c THEN Closed("done") ELSE req[r]]
  /\ crossed' = {r \in crossed : req[r].con # c}
  /\ UNCHANGED <<PORT_AUTO, oneDb, db, starts, early>>

(* Stopped by the operator, taken over by the installer, or killed; or its *)
(* boot ends with FATAL since the database is busy.                        *)
Stop(c) ==
  /\ con[c].pc \notin {"off", "exited"}
  /\ Leave(c, "off")

Free(p) == p \notin Taken /\ listener[p] = None

Step(c, pc, at) ==
  /\ con' = [con EXCEPT ![c].pc = pc, ![c].at = at]
  /\ UNCHANGED <<PORT_AUTO, oneDb, listener, req, starts, history>>

(* The port is bound, and initDb opens its database. *)
Bind(c) ==
  /\ con[c].pc = "listen"
  /\ Free(con[c].port)
  /\ listener' = [listener EXCEPT ![con[c].port] = c]
  /\ con' = [con EXCEPT ![c].pc = "check", ![c].tries = 0, ![c].at = 1]
  /\ UNCHANGED <<PORT_AUTO, oneDb, db, req, starts, history>>

(* EADDRINUSE *)
NextPort(c) ==
  /\ con[c].pc = "listen"
  /\ ~Free(con[c].port)
  /\ PORT_AUTO /\ con[c].tries > 0 /\ con[c].port < MaxPort
  /\ con' = [con EXCEPT ![c].port = @ + 1, ![c].tries = @ - 1]
  /\ UNCHANGED <<PORT_AUTO, oneDb, listener, db, req, starts, history>>

(* Past the last port listen throws, which ends the process as well. *)
GiveUp(c) ==
  /\ con[c].pc = "listen"
  /\ ~Free(con[c].port)
  /\ PORT_AUTO => con[c].tries = 0 \/ con[c].port = MaxPort
  /\ Leave(c, "exited")

-----------------------------------------------------------------------------
(* ensureSchema and seedSkillsFromDisk *)

AfterObject(c) == IF con[c].at = Len(Schema) THEN <<"count", 0>> ELSE <<"check", con[c].at + 1>>
Advance(c) == Step(c, AfterObject(c)[1], AfterObject(c)[2])

(* Mutant: creates without looking. *)
CheckNothing(c) ==
  /\ con[c].pc = "check"
  /\ Step(c, "create", con[c].at)
  /\ UNCHANGED db

Check(c) ==
  /\ con[c].pc = "check"
  /\ IF Schema[con[c].at] \in db[DbOf(c)].schema
     THEN Advance(c)
     ELSE Step(c, "create", con[c].at)
  /\ UNCHANGED db

(* The runs table is created with its column. *)
Create(c) ==
  LET o   == Schema[con[c].at]
      new == IF o = "runs" THEN {o, "parent_session_id"} ELSE {o}
  IN  /\ con[c].pc = "create"
      /\ o \notin db[DbOf(c)].schema
      /\ db' = [db EXCEPT ![DbOf(c)].schema = @ \cup new]
      /\ Advance(c)

CountSkills(c) ==
  /\ con[c].pc = "count"
  /\ Step(c, IF Names(DbOf(c)) = {} THEN "seed" ELSE "serving", 0)
  /\ UNCHANGED db

(* Mutant: inserts or replaces. *)
SeedOver(c) ==
  LET d == DbOf(c) IN
  /\ con[c].pc = "seed"
  /\ db' = [db EXCEPT ![d].skills = [n \in Skill |-> IF n \in BuiltIn THEN Seeded[n] ELSE @[n]]]
  /\ Step(c, "serving", 0)

(* One insert of all rows, which the unique names make all or nothing. *)
Seed(c) ==
  LET d == DbOf(c) IN
  /\ con[c].pc = "seed"
  /\ Names(d) \cap BuiltIn = {}
  /\ db' = [db EXCEPT ![d].skills = [n \in Skill |-> IF n \in BuiltIn THEN Seeded[n] ELSE @[n]]]
  /\ Step(c, "serving", 0)

(* FATAL: what another process has created meanwhile is in the way. *)
BootFails(c) ==
  /\ \/ con[c].pc = "create" /\ Schema[con[c].at] \in db[DbOf(c)].schema
     \/ con[c].pc = "seed" /\ Names(DbOf(c)) \cap BuiltIn # {}
  /\ Leave(c, "exited")

-----------------------------------------------------------------------------
(* Requests *)

Ops == {"edit", "import", "delete", "override", "restore"}

(* One that comes before there is a skills table fails, and is left out. *)
Arrive(r) ==
  /\ req[r].pc = "new"
  /\ \E c \in Console, op \in Ops, n \in Skill :
       /\ con[c].pc \in Listening /\ "skills" \in db[DbOf(c)].schema
       /\ req' = [req EXCEPT ![r] = [pc |-> IF op = "restore" THEN "update" ELSE "lookup",
                                     op |-> op, skill |-> n, con |-> c]]
  /\ UNCHANGED <<PORT_AUTO, oneDb, listener, con, db, starts, history>>

D(r)   == DbOf(req[r].con)
Found(r) == db[D(r)].skills[req[r].skill]
Override(r) == db[D(r)].overrides[req[r].skill]

Table(r) ==
  IF req[r].pc = "lookup" \/ req[r].op \notin {"override", "restore"}
  THEN "skills" ELSE "run_skill_overrides"

Serve(r, at) ==
  /\ req[r].pc = at
  /\ Table(r) \in db[D(r)].schema

Become(r, pc) ==
  /\ req' = [req EXCEPT ![r] = IF pc \in Open THEN [@ EXCEPT !.pc = pc] ELSE Closed(pc)]
  /\ UNCHANGED <<PORT_AUTO, oneDb, listener, con, starts>>

(* "db read failed", "db write failed": the table is not there yet, a row  *)
(* of that name is, or the query fails.                                    *)
RequestFails(r) ==
  /\ req[r].pc \in Open
  /\ Become(r, "done")
  /\ crossed' = crossed \ {r}
  /\ UNCHANGED <<db, early>>

Lookup(r) ==
  /\ Serve(r, "lookup")
  /\ Become(r, CASE req[r].op = "import"   -> IF Found(r) = None THEN "insert" ELSE "done"
                 [] req[r].op = "edit"     -> IF Found(r) = None THEN "done" ELSE "update"
                 [] req[r].op = "override" -> IF Found(r) = None THEN "done" ELSE "find"
                 [] req[r].op = "delete"   -> IF Found(r) # None /\ Found(r).source = "imported"
                                              THEN "update" ELSE "done")
  /\ UNCHANGED <<db, history>>

(* Mutant: only updates. *)
FindNothing(r) ==
  /\ Serve(r, "find")
  /\ Become(r, "update")
  /\ UNCHANGED <<db, history>>

FindOverride(r) ==
  /\ Serve(r, "find")
  /\ Become(r, IF Override(r) = None THEN "insert" ELSE "update")
  /\ UNCHANGED <<db, history>>

SetSkill(r, row)     == db' = [db EXCEPT ![D(r)].skills[req[r].skill] = row]
SetOverride(r, text) == db' = [db EXCEPT ![D(r)].overrides[req[r].skill] = text]

(* Those that are about to update what is now deleted. *)
Crossed(op, r) ==
  crossed' = crossed \cup {q \in Request : /\ req[q].op = op /\ req[q].pc = "update"
                                           /\ D(q) = D(r) /\ req[q].skill = req[r].skill}

InsertSkill(r) ==
  /\ Serve(r, "insert") /\ req[r].op = "import"
  /\ Found(r) = None
  /\ SetSkill(r, [source |-> "imported", text |-> r])
  /\ Become(r, "done")
  /\ early' = IF \E n \in Names(D(r)) : db[D(r)].skills[n].source = "built-in"
              THEN early ELSE early \cup {D(r)}
  /\ UNCHANGED crossed

(* An update of no rows is answered like any other. *)
UpdateSkill(r) ==
  /\ Serve(r, "update") /\ req[r].op = "edit"
  /\ IF Found(r) = None
     THEN Become(r, "hollow") /\ UNCHANGED <<db, crossed>>
     ELSE /\ Become(r, "done")
          /\ SetSkill(r, [Found(r) EXCEPT !.text = r])
          /\ crossed' = crossed \ {r}
  /\ UNCHANGED early

DeleteSkill(r) ==
  /\ Serve(r, "update") /\ req[r].op = "delete"
  /\ Become(r, "done")
  /\ SetSkill(r, None)
  /\ Crossed("edit", r)
  /\ UNCHANGED early

InsertOverride(r) ==
  /\ Serve(r, "insert") /\ req[r].op = "override"
  /\ Override(r) = None
  /\ SetOverride(r, r)
  /\ Become(r, "done")
  /\ UNCHANGED history

UpdateOverride(r) ==
  /\ Serve(r, "update") /\ req[r].op = "override"
  /\ IF Override(r) = None
     THEN Become(r, "hollow") /\ UNCHANGED <<db, crossed>>
     ELSE /\ Become(r, "done")
          /\ SetOverride(r, r)
          /\ crossed' = crossed \ {r}
  /\ UNCHANGED early

DeleteOverride(r) ==
  /\ Serve(r, "update") /\ req[r].op = "restore"
  /\ IF Override(r) = None
     THEN Become(r, "done") /\ UNCHANGED <<db, crossed>>
     ELSE /\ Become(r, "done")
          /\ SetOverride(r, None)
          /\ Crossed("override", r)
  /\ UNCHANGED early

-----------------------------------------------------------------------------
Boot(c) ==
  \/ Bind(c) \/ NextPort(c) \/ GiveUp(c)
  \/ Check(c) \/ Create(c) \/ CountSkills(c) \/ Seed(c) \/ BootFails(c)

Handle(r) ==
  \/ RequestFails(r) \/ Lookup(r) \/ FindOverride(r)
  \/ InsertSkill(r) \/ UpdateSkill(r) \/ DeleteSkill(r)
  \/ InsertOverride(r) \/ UpdateOverride(r) \/ DeleteOverride(r)

Next ==
  \/ \E c \in Console : Start(c) \/ Stop(c) \/ Boot(c)
  \/ \E r \in Request : Arrive(r) \/ Handle(r)

Spec == Init /\ [][Next]_vars

-----------------------------------------------------------------------------
Pc       == {"off", "listen", "exited"} \cup Listening
ConType  == [pc : Pc, port : Port, tries : 0..MaxTries, at : 0..Len(Schema)]
Database == [schema : SUBSET Objects, skills : [Skill -> Row \cup {None}],
             overrides : [Skill -> Request \cup {None}]]
ReqPc    == {"new", "done", "hollow"} \cup Open
ReqType  == [pc : ReqPc, op : Ops \cup {None}, skill : Skill \cup {None}, con : Console \cup {None}]

TypeOK ==
  /\ PORT_AUTO \in BOOLEAN /\ oneDb \in BOOLEAN
  /\ listener \in [Port -> Console \cup {None}]
  /\ con \in [Console -> ConType]
  /\ \A c \in Console : con[c].pc \in {"check", "create"} => con[c].at \in DOMAIN Schema
  /\ db \in [Db -> Database]
  /\ req \in [Request -> ReqType]
  /\ starts \in Nat
  /\ early \subseteq Db /\ crossed \subseteq Request

Library(d) == INSTANCE SkillLibrary WITH lib <- db[d].skills, Text <- Request

LibrariesStart == \A d \in Db : Library(d)!Init
LibrariesStep  == \A d \in Db : \/ d \in early'
                                \/ db'[d].skills = db[d].skills
                                \/ Library(d)!Next

(* The skill library behaves as one that is seeded, edited, extended and   *)
(* pruned in single steps, whatever boots, restarts and requests interleave *)
(* their queries, unless an import has come before the seed.               *)
LibraryAtomic == LibrariesStart /\ [][LibrariesStep]_vars

(* A console that serves finds the whole schema and all of the built-in    *)
(* skills in its database, whoever else was creating them; and no other    *)
(* console uses it, whichever ports they ended up on, unless the operator  *)
(* points them at the same one.                                            *)
ServesOwnDatabase ==
  /\ TypeOK
  /\ \A c \in Console : con[c].pc = "serving" =>
       /\ db[DbOf(c)].schema = Objects
       /\ DbOf(c) \in early \/ \A n \in BuiltIn : db[DbOf(c)].skills[n] # None
       /\ \A d \in Console \ {c} : con[d].pc \in Listening /\ DbOf(d) = DbOf(c) => oneDb

(* Consoles that race for ports, tables and seed do not all lose: when     *)
(* each of them has given up, and none was stopped or found the database   *)
(* busy, an import had come before the seed.                               *)
OneBootSurvives == (\A c \in Console : con[c].pc = "exited") => early # {}

(* An edit answered with success has written what it was asked to, unless  *)
(* another request deleted its row between its look and its write.         *)
AnsweredIsApplied ==
  \A r \in Request : req[r].pc = "hollow" => r \in crossed

=============================================================================
