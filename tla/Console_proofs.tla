--------------------------- MODULE Console_proofs ---------------------------
(***************************************************************************)
(* Proofs about the consoles, for any number of them, of ports, tables,    *)
(* skills and requests: that a console that serves has a whole database of *)
(* its own, that they do not all lose the race, that an edit answered with *)
(* success has been made, and that the library changes in the steps of     *)
(* SkillLibrary; and about what they show of the sessions (Views, LogTail, *)
(* SessionGraph): that a view has the lines of its log, and a node of the  *)
(* graph what its plan says.                                               *)
(***************************************************************************)
EXTENDS Console, Views, FiniteSetTheorems, WellFoundedInduction, TLAPS, SequenceTheorems

(* Who holds which port, ...                                               *)
PortsHeld ==
  /\ \A c \in Console : con[c].pc \in Listening =>
       listener[con[c].port] = c /\ con[c].port \notin Taken
  /\ \A p \in Port : listener[p] # None =>
       con[listener[p]].pc \in Listening /\ con[listener[p]].port = p

(* ... and which ports a console may have come by.                         *)
PortsTried ==
  \A c \in Console :
    /\ PORT[c] <= con[c].port /\ con[c].port + con[c].tries <= PORT[c] + MaxTries
    /\ con[c].pc \in {"off", "exited"} \/ ~PORT_AUTO => con[c].port = PORT[c]

(* What a boot has seen of its database stays there.                       *)
SchemaSeen ==
  \A c \in Console :
    /\ con[c].pc \in {"check", "create"} =>
         \A i \in 1..con[c].at : i < con[c].at => Schema[i] \in db[DbOf(c)].schema
    /\ con[c].pc \in {"count", "seed", "serving"} => db[DbOf(c)].schema = Objects

BuiltInThere(d) ==
  \A n \in BuiltIn : db[d].skills[n] # None /\ db[d].skills[n].source = "built-in"

(* A library that no import was ahead of is empty or whole.                *)
LibrarySound ==
  /\ \A d \in Db : d \notin early =>
       /\ Names(d) = {} \/ BuiltInThere(d)
       /\ \A n \in Skill \ BuiltIn : db[d].skills[n] # None => db[d].skills[n].source = "imported"
  /\ \A c \in Console : con[c].pc = "serving" => DbOf(c) \in early \/ BuiltInThere(DbOf(c))

(* A request is with a console that listens, and what it means to delete   *)
(* is not built in.                                                        *)
RequestsServed ==
  \A r \in Request :
    IF req[r].pc \in Open
    THEN /\ req[r].op \in Ops /\ req[r].skill \in Skill /\ req[r].con \in Console
         /\ con[req[r].con].pc \in Listening
         /\ req[r].pc = "lookup" => req[r].op # "restore"
         /\ req[r].pc = "find" => req[r].op = "override"
         /\ req[r].pc = "update" /\ req[r].op = "delete" => D(r) \in early \/ req[r].skill \notin BuiltIn
    ELSE req[r].con = None

(* Who is about to update a row that is not there any more is crossed.     *)
CrossedKnown ==
  /\ \A r \in Request : req[r].pc = "update" =>
       /\ req[r].op = "edit" /\ Found(r) = None => r \in crossed
       /\ req[r].op = "override" /\ Override(r) = None => r \in crossed
  /\ AnsweredIsApplied

IInv ==
  /\ TypeOK
  /\ PortsHeld /\ PortsTried /\ SchemaSeen
  /\ LibrarySound /\ RequestsServed /\ CrossedKnown

(* What another process has created is in the way of c's boot.             *)
Doomed(c) ==
  \/ con[c].pc = "create" /\ Schema[con[c].at] \in db[DbOf(c)].schema
  \/ con[c].pc = "seed" /\ Names(DbOf(c)) \cap BuiltIn # {}

(* c may come to the port p if it is free.                                 *)
Reaches(c, p) ==
  \/ /\ con[c].pc = "off"
     /\ PORT[c] <= p /\ p <= PORT[c] + MaxTries /\ (PORT_AUTO \/ p = PORT[c])
  \/ /\ con[c].pc = "listen"
     /\ con[c].port <= p /\ p <= con[c].port + con[c].tries /\ (PORT_AUTO \/ p = con[c].port)

(* A port whose holder's boot is on its way, or that is free for one that  *)
(* will come to it.                                                        *)
Hope ==
  \E p \in Port \ Taken :
    IF listener[p] = None THEN \E c \in Console : Reaches(c, p)
    ELSE ~Doomed(listener[p])

HopeOrEarly == early # {} \/ Hope

-----------------------------------------------------------------------------
(* What the sets of strings contain.                                       *)
LEMMA Known ==
  /\ {"off", "listen", "exited", "serving", "check", "create", "count", "seed"} \subseteq Pc
  /\ {"new", "done", "hollow", "lookup", "find", "insert", "update"} \subseteq ReqPc
  /\ {"serving", "check", "create", "count", "seed"} = Listening
  /\ Pc = {"off", "listen", "exited"} \cup Listening
  /\ Ops = {"edit", "import", "delete", "override", "restore"}
  BY DEF Pc, Listening, Booting, ReqPc, Open, Ops

(* A sequence between two pairs, of which the front one's second is found. *)
LEMMA Framed ==
  ASSUME NEW S, NEW a \in S, NEW b \in S, NEW c \in S, NEW d \in S, NEW s \in Seq(S),
         NEW front, front = <<a, b>>, NEW back, back = <<c, d>>
  PROVE  /\ front \o s \o back \in Seq(S) /\ Len(front \o s \o back) = Len(s) + 4
         /\ (front \o s \o back)[2] = b
<1>1. front \in Seq(S) /\ Len(front) = 2 /\ front[2] = b /\ back \in Seq(S) /\ Len(back) = 2
  OBVIOUS
<1>2. front \o s \in Seq(S) /\ Len(front \o s) = Len(s) + 2 /\ (front \o s)[2] = b
  BY <1>1, ConcatProperties
<1>3. QED
  BY <1>1, <1>2, ConcatProperties

(* What a boot looks for is a sequence that is not empty, whatever the     *)
(* other tables are, and the lineage column is in it.                      *)
LEMMA SchemaShape ==
  /\ Len(Schema) \in Nat /\ 1 <= Len(Schema) /\ DOMAIN Schema = 1..Len(Schema)
  /\ \A i \in 1..Len(Schema) : Schema[i] \in Objects
  /\ \A o \in Objects : \E i \in 1..Len(Schema) : Schema[i] = o
  /\ "parent_session_id" \in Objects
<1>1. PICK S : S = STRING \cup {"runs", "parent_session_id", "skills", "run_skill_overrides"}
  OBVIOUS
<1>2. OtherTables \in Seq(S)
  BY <1>1, ConsoleAssumption, SeqMonotonic
<1>3. {"runs", "parent_session_id", "skills", "run_skill_overrides"} \subseteq S
  BY <1>1
<1>4. /\ Schema \in Seq(S) /\ Len(Schema) = Len(OtherTables) + 4
      /\ Schema[2] = "parent_session_id"
  BY <1>2, <1>3, Framed DEF Schema
<1>5. Len(OtherTables) \in Nat /\ DOMAIN Schema = 1..Len(Schema)
  BY <1>2, <1>4
<1>6. 2 \in DOMAIN Schema
  BY <1>4, <1>5
<1>7. QED
  BY <1>4, <1>5, <1>6 DEF Objects

-----------------------------------------------------------------------------
(* A step changes one console, ...                                         *)
ConBecomes(c, pc, port, tries, at) ==
  /\ con' \in [Console -> ConType]
  /\ con'[c].pc = pc /\ con'[c].port = port /\ con'[c].tries = tries /\ con'[c].at = at
  /\ \A x \in Console : x # c => con'[x] = con[x]

(* ... which may end with its port and its requests, ...                   *)
Leaves(c, pc) ==
  /\ ConBecomes(c, pc, PORT[c], 0, 0)
  /\ listener' \in [Port -> Console \cup {None}]
  /\ \A p \in Port : listener'[p] = IF listener[p] = c THEN None ELSE listener[p]
  /\ req' \in [Request -> ReqType]
  /\ \A r \in Request : IF req[r].con = c THEN req'[r].pc = "done" /\ req'[r].con = None
                        ELSE req'[r] = req[r]
  /\ crossed' \subseteq crossed /\ \A r \in crossed : req[r].con # c => r \in crossed'
  /\ UNCHANGED <<PORT_AUTO, oneDb, db, early>>

(* ... or one request, ...                                                 *)
Turns(r, pc) ==
  /\ req' \in [Request -> ReqType]
  /\ req'[r].pc = pc
  /\ IF pc \in Open
     THEN req'[r].op = req[r].op /\ req'[r].skill = req[r].skill /\ req'[r].con = req[r].con
     ELSE req'[r].con = None
  /\ \A q \in Request : q # r => req'[q] = req[q]
  /\ UNCHANGED <<PORT_AUTO, oneDb, listener, con, starts>>

(* ... and of one database the schema, the skills or the overrides.        *)
Schemed(d, schema) ==
  /\ db' \in [Db -> Database]
  /\ db'[d].schema = schema /\ db'[d].skills = db[d].skills /\ db'[d].overrides = db[d].overrides
  /\ \A e \in Db : e # d => db'[e] = db[e]

Skilled(d, skills) ==
  /\ db' \in [Db -> Database]
  /\ db'[d].schema = db[d].schema /\ db'[d].skills = skills /\ db'[d].overrides = db[d].overrides
  /\ \A e \in Db : e # d => db'[e] = db[e]

Overridden(d, overrides) ==
  /\ db' \in [Db -> Database]
  /\ db'[d].schema = db[d].schema /\ db'[d].skills = db[d].skills /\ db'[d].overrides = overrides
  /\ \A e \in Db : e # d => db'[e] = db[e]

(* Every console has its database, ...                                     *)
LEMMA DbOfType ==
  ASSUME TypeOK
  PROVE  /\ \A c \in Console :
              /\ DbOf(c) \in Db /\ con[c] \in ConType
              /\ con[c].port \in Port /\ con[c].tries \in 0..MaxTries
              /\ con[c].port \in Nat /\ con[c].tries \in Nat /\ PORT[c] \in Nat
              /\ con[c].at \in 0..Len(Schema)
         /\ \A p \in Port : listener[p] = None \/ listener[p] \in Console
<1>1. ASSUME NEW c \in Console
      PROVE  con[c] \in ConType /\ con[c].port \in Port /\ con[c].tries \in 0..MaxTries
             /\ con[c].at \in 0..Len(Schema)
  BY DEF TypeOK, ConType
<1>2. ASSUME NEW c \in Console
      PROVE  con[c].port \in Nat /\ con[c].tries \in Nat /\ PORT[c] \in Nat /\ DbOf(c) \in Db
  BY <1>1, ConsoleAssumption DEF DbOf, Db, Port
<1>3. QED
  BY <1>1, <1>2 DEF TypeOK

(* ... and every request has that of the console that answers it.          *)
LEMMA DType ==
  ASSUME TypeOK, RequestsServed, NEW r \in Request, req[r].pc \in Open
  PROVE  /\ req[r].con \in Console /\ D(r) \in Db /\ req[r].skill \in Skill /\ req[r].op \in Ops
         /\ con[req[r].con].pc \in Listening
<1>1. req[r].con \in Console /\ req[r].skill \in Skill /\ req[r].op \in Ops
      /\ con[req[r].con].pc \in Listening
  BY DEF RequestsServed
<1>2. QED
  BY <1>1, DbOfType DEF D

(* A step within a console's life.                                         *)
LEMMA ConUpdated ==
  ASSUME TypeOK, NEW c \in Console, NEW pc \in Pc, NEW port \in Port, NEW tries \in 0..MaxTries,
         NEW at \in 0..Len(Schema), NEW x, x = [pc |-> pc, port |-> port, tries |-> tries, at |-> at],
         con' = [con EXCEPT ![c] = x]
  PROVE  ConBecomes(c, pc, port, tries, at)
<1>1. x \in ConType
  BY DEF ConType
<1>2. QED
  BY <1>1 DEF TypeOK, ConBecomes

(* A query of a boot moves its console on and leaves the rest alone.       *)
LEMMA StepEffect ==
  ASSUME TypeOK, NEW c \in Console, NEW pc \in Pc, NEW at \in 0..Len(Schema), Step(c, pc, at)
  PROVE  /\ ConBecomes(c, pc, con[c].port, con[c].tries, at)
         /\ UNCHANGED <<PORT_AUTO, oneDb, listener, req, starts, early, crossed>>
<1>1. con' = [con EXCEPT ![c].pc = pc, ![c].at = at]
      /\ UNCHANGED <<PORT_AUTO, oneDb, listener, req, starts, early, crossed>>
  BY DEF Step, history
<1>2. con[c] \in ConType
  BY DEF TypeOK
<1>3. con' \in [Console -> ConType]
  BY <1>1, <1>2 DEF TypeOK, ConType
<1>4. con'[c].pc = pc /\ con'[c].port = con[c].port /\ con'[c].tries = con[c].tries /\ con'[c].at = at
  BY <1>1, <1>2 DEF TypeOK, ConType
<1>5. QED
  BY <1>1, <1>3, <1>4 DEF ConBecomes, TypeOK

(* A process that ends loses its port and its requests.                    *)
LEMMA LeaveEffect ==
  ASSUME TypeOK, NEW c \in Console, NEW pc \in Pc, Leave(c, pc)
  PROVE  Leaves(c, pc)
<1>1. PICK x : x = [pc |-> pc, port |-> PORT[c], tries |-> 0, at |-> 0]
  OBVIOUS
<1>2. con' = [con EXCEPT ![c] = x]
  BY <1>1 DEF Leave, Stopped
<1>3. PORT[c] \in Port /\ 0 \in 0..MaxTries /\ 0 \in 0..Len(Schema)
  BY ConsoleAssumption, SchemaShape
<1>4. ConBecomes(c, pc, PORT[c], 0, 0)
  BY <1>1, <1>2, <1>3, ConUpdated
<1>5. /\ listener' \in [Port -> Console \cup {None}]
      /\ \A p \in Port : listener'[p] = IF listener[p] = c THEN None ELSE listener[p]
  BY DEF Leave, TypeOK
<1>6. PICK over : over = Closed("done")
  OBVIOUS
<1>7. over \in ReqType /\ over.pc = "done" /\ over.con = None
  BY <1>6, Known DEF Closed, ReqType
<1>8. req' = [r \in Request |-> IF req[r].con = c THEN over ELSE req[r]]
  BY <1>6 DEF Leave
<1>9. /\ req' \in [Request -> ReqType]
      /\ \A r \in Request : IF req[r].con = c THEN req'[r].pc = "done" /\ req'[r].con = None
                            ELSE req'[r] = req[r]
  BY <1>7, <1>8 DEF TypeOK
<1>10. crossed' \subseteq crossed /\ \A r \in crossed : req[r].con # c => r \in crossed'
  BY DEF Leave
<1>11. UNCHANGED <<PORT_AUTO, oneDb, db, early>>
  BY DEF Leave
<1>12. QED
  BY <1>4, <1>5, <1>9, <1>10, <1>11 DEF Leaves

(* A request goes on with its operation, or is over.                       *)
LEMMA BecomeEffect ==
  ASSUME TypeOK, NEW r \in Request, NEW pc \in ReqPc, Become(r, pc)
  PROVE  Turns(r, pc)
<1>1. PICK over : over = Closed(pc)
  OBVIOUS
<1>2. over \in ReqType /\ over.pc = pc /\ over.con = None
  BY <1>1, Known DEF Closed, ReqType
<1>3. PICK on : on = [req[r] EXCEPT !.pc = pc]
  OBVIOUS
<1>4. /\ on \in ReqType /\ on.pc = pc /\ on.op = req[r].op /\ on.skill = req[r].skill
      /\ on.con = req[r].con
  BY <1>3 DEF TypeOK, ReqType
<1>5. req' = [req EXCEPT ![r] = IF pc \in Open THEN on ELSE over]
  BY <1>1, <1>3 DEF Become
<1>6. UNCHANGED <<PORT_AUTO, oneDb, listener, con, starts>>
  BY DEF Become
<1>7. CASE pc \in Open
  BY <1>4, <1>5, <1>6, <1>7 DEF Turns, TypeOK
<1>8. CASE pc \notin Open
  BY <1>2, <1>5, <1>6, <1>8 DEF Turns, TypeOK
<1>9. QED
  BY <1>7, <1>8

(* Writing the skills of a database leaves its tables and overrides as they*)
(* are, ...                                                                *)
LEMMA SkillsWritten ==
  ASSUME TypeOK, NEW d \in Db, NEW skills \in [Skill -> Row \cup {None}],
         db' = [db EXCEPT ![d].skills = skills]
  PROVE  Skilled(d, skills)
<1>1. db[d] \in Database
  BY DEF TypeOK
<1>2. PICK x : x = [db[d] EXCEPT !.skills = skills]
  OBVIOUS
<1>3. x \in Database /\ x.schema = db[d].schema /\ x.skills = skills /\ x.overrides = db[d].overrides
  BY <1>1, <1>2 DEF Database
<1>4. db' = [db EXCEPT ![d] = x]
  BY <1>2 DEF TypeOK
<1>5. QED
  BY <1>3, <1>4 DEF TypeOK, Skilled

(* ... so does creating a table the rows, ...                              *)
LEMMA SchemaWritten ==
  ASSUME TypeOK, NEW d \in Db, NEW schema \in SUBSET Objects,
         db' = [db EXCEPT ![d].schema = schema]
  PROVE  Schemed(d, schema)
<1>1. db[d] \in Database
  BY DEF TypeOK
<1>2. PICK x : x = [db[d] EXCEPT !.schema = schema]
  OBVIOUS
<1>3. x \in Database /\ x.schema = schema /\ x.skills = db[d].skills /\ x.overrides = db[d].overrides
  BY <1>1, <1>2 DEF Database
<1>4. db' = [db EXCEPT ![d] = x]
  BY <1>2 DEF TypeOK
<1>5. QED
  BY <1>3, <1>4 DEF TypeOK, Schemed

(* ... and an override the skills.                                         *)
LEMMA OverridesWritten ==
  ASSUME TypeOK, NEW d \in Db, NEW overrides \in [Skill -> Request \cup {None}],
         db' = [db EXCEPT ![d].overrides = overrides]
  PROVE  Overridden(d, overrides)
<1>1. db[d] \in Database
  BY DEF TypeOK
<1>2. PICK x : x = [db[d] EXCEPT !.overrides = overrides]
  OBVIOUS
<1>3. x \in Database /\ x.schema = db[d].schema /\ x.skills = db[d].skills /\ x.overrides = overrides
  BY <1>1, <1>2 DEF Database
<1>4. db' = [db EXCEPT ![d] = x]
  BY <1>2 DEF TypeOK
<1>5. QED
  BY <1>3, <1>4 DEF TypeOK, Overridden

-----------------------------------------------------------------------------
(* What each step of a boot does.                                          *)
LEMMA StartEffect ==
  ASSUME TypeOK, NEW c \in Console, Start(c)
  PROVE  /\ con[c].pc \in {"off", "exited"}
         /\ ConBecomes(c, "listen", con[c].port, MaxTries, con[c].at)
         /\ starts' \in Nat /\ UNCHANGED <<PORT_AUTO, oneDb, listener, db, req, early, crossed>>
<1>1. con[c] \in ConType /\ MaxTries \in 0..MaxTries
  BY ConsoleAssumption DEF TypeOK
<1>2. con' = [con EXCEPT ![c].pc = "listen", ![c].tries = MaxTries]
  BY DEF Start
<1>3. con' \in [Console -> ConType]
  BY <1>1, <1>2, Known DEF TypeOK, ConType
<1>4. ConBecomes(c, "listen", con[c].port, MaxTries, con[c].at)
  BY <1>1, <1>2, <1>3 DEF ConBecomes, TypeOK, ConType
<1>5. QED
  BY <1>4 DEF Start, TypeOK, history

(* Stopped or killed, a console is off.                                    *)
LEMMA StopEffect ==
  ASSUME TypeOK, NEW c \in Console, Stop(c)
  PROVE  con[c].pc \notin {"off", "exited"} /\ Leaves(c, "off") /\ UNCHANGED starts
<1>1. Leaves(c, "off")
  BY LeaveEffect, Known DEF Stop
<1>2. QED
  BY <1>1 DEF Stop, Leave

(* Who binds takes the port it tried, which was free, and looks for the    *)
(* first table.                                                            *)
LEMMA BindEffect ==
  ASSUME TypeOK, NEW c \in Console, Bind(c)
  PROVE  /\ con[c].pc = "listen" /\ Free(con[c].port)
         /\ ConBecomes(c, "check", con[c].port, 0, 1)
         /\ listener' \in [Port -> Console \cup {None}] /\ listener'[con[c].port] = c
         /\ \A p \in Port : p # con[c].port => listener'[p] = listener[p]
         /\ UNCHANGED <<PORT_AUTO, oneDb, db, req, starts, early, crossed>>
<1>1. con[c] \in ConType /\ con[c].port \in Port /\ 0 \in 0..MaxTries /\ 1 \in 0..Len(Schema)
  BY ConsoleAssumption, SchemaShape DEF TypeOK, ConType
<1>2. con' = [con EXCEPT ![c].pc = "check", ![c].tries = 0, ![c].at = 1]
  BY DEF Bind
<1>3. con' \in [Console -> ConType]
  BY <1>1, <1>2, Known DEF TypeOK, ConType
<1>4. ConBecomes(c, "check", con[c].port, 0, 1)
  BY <1>1, <1>2, <1>3 DEF ConBecomes, TypeOK, ConType
<1>5. /\ listener' \in [Port -> Console \cup {None}] /\ listener'[con[c].port] = c
      /\ \A p \in Port : p # con[c].port => listener'[p] = listener[p]
  BY <1>1 DEF Bind, TypeOK
<1>6. QED
  BY <1>4, <1>5 DEF Bind, history

(* Who finds the port in use tries the next with a try less.               *)
LEMMA NextPortEffect ==
  ASSUME TypeOK, NEW c \in Console, NextPort(c)
  PROVE  /\ con[c].pc = "listen" /\ ~Free(con[c].port)
         /\ PORT_AUTO /\ con[c].tries > 0 /\ con[c].port < MaxPort
         /\ ConBecomes(c, "listen", con[c].port + 1, con[c].tries - 1, con[c].at)
         /\ UNCHANGED <<PORT_AUTO, oneDb, listener, db, req, starts, early, crossed>>
<1>1. con[c] \in ConType /\ con[c].port \in 1..MaxPort /\ con[c].tries \in 0..MaxTries
  BY DEF TypeOK, ConType, Port
<1>2. con[c].port + 1 \in Port /\ con[c].tries - 1 \in 0..MaxTries
  BY <1>1, ConsoleAssumption, SMTT(30) DEF Port, NextPort
<1>3. PICK port \in Port, tries \in 0..MaxTries : port = con[c].port + 1 /\ tries = con[c].tries - 1
  BY <1>2
<1>4. con' = [con EXCEPT ![c].port = port, ![c].tries = tries]
  BY <1>3 DEF NextPort
<1>5. con' \in [Console -> ConType]
  BY <1>1, <1>4 DEF TypeOK, ConType
<1>6. ConBecomes(c, "listen", port, tries, con[c].at)
  BY <1>1, <1>4, <1>5 DEF ConBecomes, TypeOK, ConType, NextPort
<1>7. QED
  BY <1>3, <1>6 DEF NextPort, history

(* Who gives up has found its last port in use.                            *)
LEMMA GiveUpEffect ==
  ASSUME TypeOK, NEW c \in Console, GiveUp(c)
  PROVE  /\ con[c].pc = "listen" /\ ~Free(con[c].port)
         /\ PORT_AUTO => con[c].tries = 0 \/ con[c].port = MaxPort
         /\ Leaves(c, "exited") /\ UNCHANGED starts
<1>1. Leaves(c, "exited")
  BY LeaveEffect, Known DEF GiveUp
<1>2. QED
  BY <1>1 DEF GiveUp, Leave

Advances(c) ==
  \/ con[c].at = Len(Schema) /\ ConBecomes(c, "count", con[c].port, con[c].tries, 0)
  \/ con[c].at < Len(Schema) /\ ConBecomes(c, "check", con[c].port, con[c].tries, con[c].at + 1)

(* The boot goes to the next table, or counts the skills after the last.   *)
LEMMA AdvanceEffect ==
  ASSUME TypeOK, NEW c \in Console, con[c].pc \in {"check", "create"}, Advance(c)
  PROVE  /\ Advances(c)
         /\ UNCHANGED <<PORT_AUTO, oneDb, listener, req, starts, early, crossed>>
<1>1. con[c].at \in 1..Len(Schema) /\ Len(Schema) \in Nat
  BY SchemaShape DEF TypeOK
<1>2. CASE con[c].at = Len(Schema)
  <2>1. Step(c, "count", 0) /\ 0 \in 0..Len(Schema)
    BY <1>1, <1>2 DEF Advance, AfterObject
  <2>2. QED
    BY <1>2, <2>1, StepEffect, Known DEF Advances
<1>3. CASE con[c].at # Len(Schema)
  <2>1. Step(c, "check", con[c].at + 1) /\ con[c].at + 1 \in 0..Len(Schema) /\ con[c].at < Len(Schema)
    BY <1>1, <1>3 DEF Advance, AfterObject
  <2>2. QED
    BY <2>1, StepEffect, Known DEF Advances
<1>4. QED
  BY <1>2, <1>3

(* A table that is there is passed over.                                   *)
LEMMA CheckEffect ==
  ASSUME TypeOK, NEW c \in Console, Check(c)
  PROVE  /\ con[c].pc = "check"
         /\ \/ Schema[con[c].at] \in db[DbOf(c)].schema /\ Advances(c)
            \/ /\ Schema[con[c].at] \notin db[DbOf(c)].schema
               /\ ConBecomes(c, "create", con[c].port, con[c].tries, con[c].at)
         /\ UNCHANGED <<PORT_AUTO, oneDb, listener, db, req, starts, early, crossed>>
<1>1. con[c].pc = "check" /\ con[c].at \in 0..Len(Schema) /\ UNCHANGED db
  BY SchemaShape DEF TypeOK, Check
<1>2. CASE Schema[con[c].at] \in db[DbOf(c)].schema
  <2>1. Advance(c)
    BY <1>2 DEF Check
  <2>2. QED
    BY <1>1, <1>2, <2>1, AdvanceEffect
<1>3. CASE Schema[con[c].at] \notin db[DbOf(c)].schema
  <2>1. Step(c, "create", con[c].at)
    BY <1>3 DEF Check
  <2>2. QED
    BY <1>1, <1>3, <2>1, StepEffect, Known
<1>4. QED
  BY <1>2, <1>3

(* A table that is created was not there, and is thereafter.               *)
LEMMA CreateEffect ==
  ASSUME TypeOK, NEW c \in Console, Create(c)
  PROVE  /\ con[c].pc = "create" /\ Schema[con[c].at] \notin db[DbOf(c)].schema
         /\ \E schema \in SUBSET Objects :
              /\ db[DbOf(c)].schema \subseteq schema /\ Schema[con[c].at] \in schema
              /\ Schemed(DbOf(c), schema)
         /\ Advances(c)
         /\ UNCHANGED <<PORT_AUTO, oneDb, listener, req, starts, early, crossed>>
<1>1. con[c].pc = "create" /\ Schema[con[c].at] \notin db[DbOf(c)].schema /\ Advance(c)
  BY DEF Create
<1>2. DbOf(c) \in Db /\ Schema[con[c].at] \in Objects
  BY <1>1, DbOfType, SchemaShape DEF TypeOK
<1>3. db[DbOf(c)].schema \subseteq Objects
  BY <1>2 DEF TypeOK, Database
<1>4. PICK new : new = IF Schema[con[c].at] = "runs" THEN {Schema[con[c].at], "parent_session_id"}
                       ELSE {Schema[con[c].at]}
  OBVIOUS
<1>5. PICK schema \in SUBSET Objects : schema = db[DbOf(c)].schema \cup new
  BY <1>2, <1>3, <1>4, SchemaShape
<1>6. db' = [db EXCEPT ![DbOf(c)].schema = schema]
  BY <1>4, <1>5 DEF Create
<1>7. Schemed(DbOf(c), schema)
  BY <1>2, <1>6, SchemaWritten
<1>8. db[DbOf(c)].schema \subseteq schema /\ Schema[con[c].at] \in schema
  BY <1>4, <1>5
<1>9. QED
  BY <1>1, <1>7, <1>8, AdvanceEffect

(* Only an empty library is about to be seeded.                            *)
LEMMA CountSkillsEffect ==
  ASSUME TypeOK, NEW c \in Console, CountSkills(c)
  PROVE  /\ con[c].pc = "count"
         /\ \/ Names(DbOf(c)) = {} /\ ConBecomes(c, "seed", con[c].port, con[c].tries, 0)
            \/ Names(DbOf(c)) # {} /\ ConBecomes(c, "serving", con[c].port, con[c].tries, 0)
         /\ UNCHANGED <<PORT_AUTO, oneDb, listener, db, req, starts, early, crossed>>
<1>1. con[c].pc = "count" /\ 0 \in 0..Len(Schema) /\ UNCHANGED db
  BY SchemaShape DEF CountSkills
<1>2. CASE Names(DbOf(c)) = {}
  <2>1. Step(c, "seed", 0)
    BY <1>2 DEF CountSkills
  <2>2. QED
    BY <1>1, <1>2, <2>1, StepEffect, Known
<1>3. CASE Names(DbOf(c)) # {}
  <2>1. Step(c, "serving", 0)
    BY <1>3 DEF CountSkills
  <2>2. QED
    BY <1>1, <1>3, <2>1, StepEffect, Known
<1>4. QED
  BY <1>2, <1>3

(* The seed writes all built-in skills over none of them.                  *)
LEMMA SeedEffect ==
  ASSUME TypeOK, NEW c \in Console, Seed(c)
  PROVE  /\ con[c].pc = "seed" /\ Names(DbOf(c)) \cap BuiltIn = {}
         /\ ConBecomes(c, "serving", con[c].port, con[c].tries, 0)
         /\ \E skills \in [Skill -> Row \cup {None}] :
              /\ \A n \in Skill : skills[n] = IF n \in BuiltIn THEN [source |-> "built-in", text |-> OnDisk]
                                              ELSE db[DbOf(c)].skills[n]
              /\ Skilled(DbOf(c), skills)
         /\ UNCHANGED <<PORT_AUTO, oneDb, listener, req, starts, early, crossed>>
<1>1. con[c].pc = "seed" /\ Names(DbOf(c)) \cap BuiltIn = {} /\ Step(c, "serving", 0)
  BY DEF Seed
<1>2. ConBecomes(c, "serving", con[c].port, con[c].tries, 0)
      /\ UNCHANGED <<PORT_AUTO, oneDb, listener, req, starts, early, crossed>>
  BY <1>1, StepEffect, SchemaShape, Known
<1>3. DbOf(c) \in Db /\ db[DbOf(c)].skills \in [Skill -> Row \cup {None}]
  BY DbOfType DEF TypeOK, Database
<1>4. PICK row \in Row : row = [source |-> "built-in", text |-> OnDisk]
  BY DEF Row
<1>5. PICK skills \in [Skill -> Row \cup {None}] :
        skills = [n \in Skill |-> IF n \in BuiltIn THEN row ELSE db[DbOf(c)].skills[n]]
  BY <1>3, <1>4
<1>6. \A n \in BuiltIn : Seeded[n] = row
  BY <1>4, ConsoleAssumption DEF Seeded
<1>7. db' = [db EXCEPT ![DbOf(c)].skills = skills]
  BY <1>3, <1>5, <1>6 DEF Seed, TypeOK
<1>8. Skilled(DbOf(c), skills)
  BY <1>3, <1>7, SkillsWritten
<1>9. QED
  BY <1>1, <1>2, <1>4, <1>5, <1>8

(* A boot fails when what it is about to create is there.                  *)
LEMMA BootFailsEffect ==
  ASSUME TypeOK, NEW c \in Console, BootFails(c)
  PROVE  con[c].pc \in {"create", "seed"} /\ Doomed(c) /\ Leaves(c, "exited") /\ UNCHANGED starts
<1>1. Leaves(c, "exited")
  BY LeaveEffect, Known DEF BootFails
<1>2. QED
  BY <1>1 DEF BootFails, Leave, Doomed

-----------------------------------------------------------------------------
(* What each step of a request does.                                       *)
LEMMA ArriveEffect ==
  ASSUME TypeOK, NEW r \in Request, Arrive(r)
  PROVE  /\ req[r].pc = "new"
         /\ req' \in [Request -> ReqType] /\ \A q \in Request : q # r => req'[q] = req[q]
         /\ req'[r].op \in Ops /\ req'[r].skill \in Skill /\ req'[r].con \in Console
         /\ con[req'[r].con].pc \in Listening
         /\ req'[r].pc = IF req'[r].op = "restore" THEN "update" ELSE "lookup"
         /\ UNCHANGED <<PORT_AUTO, oneDb, listener, con, db, starts, early, crossed>>
<1>1. PICK c \in Console, op \in Ops, n \in Skill :
        /\ con[c].pc \in Listening
        /\ req' = [req EXCEPT ![r] = [pc |-> IF op = "restore" THEN "update" ELSE "lookup",
                                      op |-> op, skill |-> n, con |-> c]]
  BY DEF Arrive
<1>2. PICK x : x = [pc |-> IF op = "restore" THEN "update" ELSE "lookup",
                    op |-> op, skill |-> n, con |-> c]
  OBVIOUS
<1>3. x \in ReqType
  BY <1>2, Known DEF ReqType
<1>4. req' = [req EXCEPT ![r] = x]
  BY <1>1, <1>2
<1>5. req' \in [Request -> ReqType] /\ req'[r] = x /\ \A q \in Request : q # r => req'[q] = req[q]
  BY <1>3, <1>4 DEF TypeOK
<1>6. req[r].pc = "new" /\ UNCHANGED <<PORT_AUTO, oneDb, listener, con, db, starts, early, crossed>>
  BY DEF Arrive, history
<1>7. QED
  BY <1>1, <1>2, <1>5, <1>6

(* A failed request changes nothing.                                       *)
LEMMA RequestFailsEffect ==
  ASSUME TypeOK, NEW r \in Request, RequestFails(r)
  PROVE  /\ req[r].pc \in Open /\ Turns(r, "done")
         /\ crossed' = crossed \ {r} /\ UNCHANGED <<db, early>>
<1>1. Turns(r, "done")
  BY BecomeEffect, Known DEF RequestFails
<1>2. QED
  BY <1>1 DEF RequestFails

(* What a request goes on to do, given the row it has found.               *)
LEMMA LookupEffect ==
  ASSUME TypeOK, NEW r \in Request, Lookup(r)
  PROVE  /\ req[r].pc = "lookup"
         /\ \/ Turns(r, "done")
            \/ req[r].op = "import" /\ Found(r) = None /\ Turns(r, "insert")
            \/ req[r].op = "edit" /\ Found(r) # None /\ Turns(r, "update")
            \/ req[r].op = "override" /\ Turns(r, "find")
            \/ /\ req[r].op = "delete" /\ Found(r) # None /\ Found(r).source = "imported"
               /\ Turns(r, "update")
            \/ req[r].op \notin Ops \ {"restore"}
         /\ UNCHANGED <<db, early, crossed>>
<1>1. req[r].pc = "lookup" /\ UNCHANGED <<db, early, crossed>>
  BY DEF Lookup, Serve, history
<1>2. CASE req[r].op = "import"
  <2>1. Become(r, IF Found(r) = None THEN "insert" ELSE "done")
    BY <1>2 DEF Lookup
  <2>2. QED
    BY <1>1, <1>2, <2>1, BecomeEffect, Known
<1>3. CASE req[r].op = "edit"
  <2>1. Become(r, IF Found(r) = None THEN "done" ELSE "update")
    BY <1>3 DEF Lookup
  <2>2. QED
    BY <1>1, <1>3, <2>1, BecomeEffect, Known
<1>4. CASE req[r].op = "override"
  <2>1. Become(r, IF Found(r) = None THEN "done" ELSE "find")
    BY <1>4 DEF Lookup
  <2>2. QED
    BY <1>1, <1>4, <2>1, BecomeEffect, Known
<1>5. CASE req[r].op = "delete"
  <2>1. Become(r, IF Found(r) # None /\ Found(r).source = "imported" THEN "update" ELSE "done")
    BY <1>5 DEF Lookup
  <2>2. QED
    BY <1>1, <1>5, <2>1, BecomeEffect, Known
<1>6. CASE req[r].op \notin {"import", "edit", "override", "delete"}
  BY <1>1, <1>6, Known
<1>7. QED
  BY <1>2, <1>3, <1>4, <1>5, <1>6

(* An override is inserted or updated as it was found missing or not.      *)
LEMMA FindOverrideEffect ==
  ASSUME TypeOK, NEW r \in Request, FindOverride(r)
  PROVE  /\ req[r].pc = "find"
         /\ \/ Override(r) = None /\ Turns(r, "insert")
            \/ Override(r) # None /\ Turns(r, "update")
         /\ UNCHANGED <<db, early, crossed>>
  BY BecomeEffect, Known DEF FindOverride, Serve, history

(* A row of the skills, or of the overrides, is written.                   *)
LEMMA SetSkillEffect ==
  ASSUME TypeOK, RequestsServed, NEW r \in Request, req[r].pc \in Open, NEW row \in Row \cup {None},
         SetSkill(r, row)
  PROVE  Skilled(D(r), [db[D(r)].skills EXCEPT ![req[r].skill] = row])
<1>1. D(r) \in Db /\ db[D(r)].skills \in [Skill -> Row \cup {None}]
  BY DType DEF TypeOK, Database
<1>2. PICK skills \in [Skill -> Row \cup {None}] : skills = [db[D(r)].skills EXCEPT ![req[r].skill] = row]
  BY <1>1
<1>3. db' = [db EXCEPT ![D(r)].skills = skills]
  BY <1>1, <1>2 DEF SetSkill, TypeOK
<1>4. QED
  BY <1>1, <1>2, <1>3, SkillsWritten

(* An override is written like a row of the skills.                        *)
LEMMA SetOverrideEffect ==
  ASSUME TypeOK, RequestsServed, NEW r \in Request, req[r].pc \in Open, NEW text \in Request \cup {None},
         SetOverride(r, text)
  PROVE  Overridden(D(r), [db[D(r)].overrides EXCEPT ![req[r].skill] = text])
<1>1. D(r) \in Db /\ db[D(r)].overrides \in [Skill -> Request \cup {None}]
  BY DType DEF TypeOK, Database
<1>2. PICK overrides \in [Skill -> Request \cup {None}] :
        overrides = [db[D(r)].overrides EXCEPT ![req[r].skill] = text]
  BY <1>1
<1>3. db' = [db EXCEPT ![D(r)].overrides = overrides]
  BY <1>1, <1>2 DEF SetOverride, TypeOK
<1>4. QED
  BY <1>1, <1>2, <1>3, OverridesWritten

(* An import adds a row of its own; into a library without built-in skills *)
(* it is early.                                                            *)
LEMMA InsertSkillEffect ==
  ASSUME TypeOK, RequestsServed, NEW r \in Request, InsertSkill(r)
  PROVE  /\ req[r].pc = "insert" /\ req[r].op = "import" /\ Found(r) = None /\ Turns(r, "done")
         /\ Skilled(D(r), [db[D(r)].skills EXCEPT ![req[r].skill] = [source |-> "imported", text |-> r]])
         /\ early' = IF \E n \in Names(D(r)) : db[D(r)].skills[n].source = "built-in"
                     THEN early ELSE early \cup {D(r)}
         /\ UNCHANGED crossed
<1>1. req[r].pc = "insert" /\ req[r].pc \in Open
  BY DEF InsertSkill, Serve, Open
<1>2. PICK row \in Row : row = [source |-> "imported", text |-> r]
  BY DEF Row
<1>3. SetSkill(r, row)
  BY <1>2 DEF InsertSkill
<1>4. QED
  BY <1>1, <1>2, <1>3, SetSkillEffect, BecomeEffect, Known DEF InsertSkill

(* An edit writes a row that is there and is hollow otherwise.             *)
LEMMA UpdateSkillEffect ==
  ASSUME TypeOK, RequestsServed, NEW r \in Request, UpdateSkill(r)
  PROVE  /\ req[r].pc = "update" /\ req[r].op = "edit"
         /\ \/ Found(r) = None /\ Turns(r, "hollow") /\ UNCHANGED <<db, crossed>>
            \/ /\ Found(r) # None /\ Turns(r, "done") /\ crossed' = crossed \ {r}
               /\ \E row \in Row : /\ row = [Found(r) EXCEPT !.text = r] /\ row.source = Found(r).source
                                   /\ Skilled(D(r), [db[D(r)].skills EXCEPT ![req[r].skill] = row])
         /\ UNCHANGED early
<1>1. req[r].pc = "update" /\ req[r].op = "edit" /\ req[r].pc \in Open /\ UNCHANGED early
  BY DEF UpdateSkill, Serve, Open
<1>2. CASE Found(r) = None
  BY <1>1, <1>2, BecomeEffect, Known DEF UpdateSkill
<1>3. CASE Found(r) # None
  <2>1. Found(r) \in Row
    BY <1>1, <1>3, DType DEF Found, TypeOK, Database
  <2>2. PICK row : row = [Found(r) EXCEPT !.text = r]
    OBVIOUS
  <2>3. row \in Row /\ row.source = Found(r).source
    BY <2>1, <2>2 DEF Row
  <2>4. SetSkill(r, row) /\ Become(r, "done") /\ crossed' = crossed \ {r}
    BY <1>3, <2>2 DEF UpdateSkill
  <2>5. QED
    BY <1>1, <1>3, <2>2, <2>3, <2>4, SetSkillEffect, BecomeEffect, Known
<1>4. QED
  BY <1>2, <1>3

(* A deletion crosses the edits that are about to write the row.           *)
LEMMA DeleteSkillEffect ==
  ASSUME TypeOK, RequestsServed, NEW r \in Request, DeleteSkill(r)
  PROVE  /\ req[r].pc = "update" /\ req[r].op = "delete" /\ Turns(r, "done")
         /\ Skilled(D(r), [db[D(r)].skills EXCEPT ![req[r].skill] = None])
         /\ Crossed("edit", r) /\ UNCHANGED early
<1>1. req[r].pc = "update" /\ req[r].pc \in Open
  BY DEF DeleteSkill, Serve, Open
<1>2. QED
  BY <1>1, SetSkillEffect, BecomeEffect, Known DEF DeleteSkill

(* A new override is written.                                              *)
LEMMA InsertOverrideEffect ==
  ASSUME TypeOK, RequestsServed, NEW r \in Request, InsertOverride(r)
  PROVE  /\ req[r].pc = "insert" /\ req[r].op = "override" /\ Turns(r, "done")
         /\ Overridden(D(r), [db[D(r)].overrides EXCEPT ![req[r].skill] = r])
         /\ UNCHANGED <<early, crossed>>
<1>1. req[r].pc = "insert" /\ req[r].pc \in Open
  BY DEF InsertOverride, Serve, Open
<1>2. QED
  BY <1>1, SetOverrideEffect, BecomeEffect, Known DEF InsertOverride, history

(* An override that is there is written; the request is hollow otherwise.  *)
LEMMA UpdateOverrideEffect ==
  ASSUME TypeOK, RequestsServed, NEW r \in Request, UpdateOverride(r)
  PROVE  /\ req[r].pc = "update" /\ req[r].op = "override"
         /\ \/ Override(r) = None /\ Turns(r, "hollow") /\ UNCHANGED <<db, crossed>>
            \/ /\ Turns(r, "done") /\ crossed' = crossed \ {r}
               /\ Overridden(D(r), [db[D(r)].overrides EXCEPT ![req[r].skill] = r])
         /\ UNCHANGED early
<1>1. req[r].pc = "update" /\ req[r].op = "override" /\ req[r].pc \in Open /\ UNCHANGED early
  BY DEF UpdateOverride, Serve, Open
<1>2. CASE Override(r) = None
  BY <1>1, <1>2, BecomeEffect, Known DEF UpdateOverride
<1>3. CASE Override(r) # None
  <2>1. SetOverride(r, r) /\ Become(r, "done") /\ crossed' = crossed \ {r}
    BY <1>3 DEF UpdateOverride
  <2>2. QED
    BY <1>1, <2>1, SetOverrideEffect, BecomeEffect, Known
<1>4. QED
  BY <1>2, <1>3

(* A restored skill crosses the overrides about to be written.             *)
LEMMA DeleteOverrideEffect ==
  ASSUME TypeOK, RequestsServed, NEW r \in Request, DeleteOverride(r)
  PROVE  /\ req[r].pc = "update" /\ req[r].op = "restore" /\ Turns(r, "done")
         /\ \/ UNCHANGED <<db, crossed>>
            \/ /\ Overridden(D(r), [db[D(r)].overrides EXCEPT ![req[r].skill] = None])
               /\ Crossed("override", r)
         /\ UNCHANGED early
<1>1. req[r].pc = "update" /\ req[r].op = "restore" /\ req[r].pc \in Open /\ UNCHANGED early
  BY DEF DeleteOverride, Serve, Open
<1>2. CASE Override(r) = None
  BY <1>1, <1>2, BecomeEffect, Known DEF DeleteOverride
<1>3. CASE Override(r) # None
  <2>1. SetOverride(r, None) /\ Become(r, "done") /\ Crossed("override", r)
    BY <1>3 DEF DeleteOverride
  <2>2. QED
    BY <1>1, <2>1, SetOverrideEffect, BecomeEffect, Known
<1>4. QED
  BY <1>2, <1>3

-----------------------------------------------------------------------------
(* Every step keeps the types, ...                                         *)
LEMMA TypeStep ==
  ASSUME TypeOK, RequestsServed, [Next]_vars
  PROVE  TypeOK'
<1> USE Known, DbOfType
   DEF ConBecomes, Leaves, Turns, Advances, Schemed, Skilled, Overridden, TypeOK
<1>1. ASSUME NEW c \in Console, Start(c) PROVE TypeOK'
  BY <1>1, StartEffect
<1>2. ASSUME NEW c \in Console, Stop(c) PROVE TypeOK'
  <2>1. /\ con' \in [Console -> ConType] /\ req' \in [Request -> ReqType]
        /\ listener' \in [Port -> Console \cup {None}] /\ crossed' \subseteq crossed
        /\ UNCHANGED <<PORT_AUTO, oneDb, db, early, starts>>
    BY <1>2, StopEffect
  <2>2. \A x \in Console : con'[x].pc \in {"check", "create"} => con'[x].at \in DOMAIN Schema
    BY <1>2, StopEffect
  <2>3. QED
    BY ONLY <2>1, <2>2, TypeOK DEF TypeOK
<1>3. ASSUME NEW c \in Console, Bind(c) PROVE TypeOK'
  BY <1>3, BindEffect, SchemaShape, SMTT(30)
<1>4. ASSUME NEW c \in Console, NextPort(c) PROVE TypeOK'
  BY <1>4, NextPortEffect
<1>5. ASSUME NEW c \in Console, GiveUp(c) PROVE TypeOK'
  BY <1>5, GiveUpEffect
<1>6. ASSUME NEW c \in Console, Check(c) PROVE TypeOK'
  BY <1>6, CheckEffect, SchemaShape, SMTT(30)
<1>7. ASSUME NEW c \in Console, Create(c) PROVE TypeOK'
  <2>1. /\ db' \in [Db -> Database] /\ Advances(c) /\ con[c].pc = "create"
        /\ UNCHANGED <<PORT_AUTO, oneDb, listener, req, starts, early, crossed>>
    BY <1>7, CreateEffect
  <2>2. con[c].at \in 1..Len(Schema) /\ Len(Schema) \in Nat
    BY <2>1, SchemaShape
  <2>3. con' \in [Console -> ConType] /\ (con'[c].pc = "check" => con'[c].at \in 1..Len(Schema))
        /\ con'[c].pc # "create" /\ \A x \in Console : x # c => con'[x] = con[x]
    BY <2>1, <2>2
  <2>4. \A x \in Console : con'[x].pc \in {"check", "create"} => con'[x].at \in DOMAIN Schema
    BY <2>3, SchemaShape
  <2>5. QED
    BY <2>1, <2>3, <2>4
<1>8. ASSUME NEW c \in Console, CountSkills(c) PROVE TypeOK'
  BY <1>8, CountSkillsEffect
<1>9. ASSUME NEW c \in Console, Seed(c) PROVE TypeOK'
  BY <1>9, SeedEffect
<1>10. ASSUME NEW c \in Console, BootFails(c) PROVE TypeOK'
  BY <1>10, BootFailsEffect
<1>11. ASSUME NEW r \in Request, Arrive(r) PROVE TypeOK'
  BY <1>11, ArriveEffect
<1>12. ASSUME NEW r \in Request, RequestFails(r) PROVE TypeOK'
  BY <1>12, RequestFailsEffect
<1>13. ASSUME NEW r \in Request, Lookup(r) PROVE TypeOK'
  BY <1>13, LookupEffect DEF RequestsServed, Open
<1>14. ASSUME NEW r \in Request, FindOverride(r) PROVE TypeOK'
  BY <1>14, FindOverrideEffect
<1>15. ASSUME NEW r \in Request, InsertSkill(r) PROVE TypeOK'
  <2>0. req[r].pc \in Open
    BY <1>15, InsertSkillEffect DEF Open
  <2>1. /\ db' \in [Db -> Database] /\ early' \subseteq early \cup {D(r)} /\ UNCHANGED crossed
        /\ Turns(r, "done") /\ D(r) \in Db
    BY ONLY <1>15, <2>0, TypeOK, RequestsServed, InsertSkillEffect, DType DEF Skilled
  <2>2. req' \in [Request -> ReqType] /\ UNCHANGED <<PORT_AUTO, oneDb, listener, con, starts>>
    BY ONLY <1>15, <2>1, TypeOK, InsertSkillEffect DEF Turns, InsertSkill, Advances, Skilled
  <2>3. QED
    BY ONLY <2>1, <2>2, TypeOK DEF TypeOK
<1>16. ASSUME NEW r \in Request, UpdateSkill(r) PROVE TypeOK'
  BY <1>16, UpdateSkillEffect
<1>17. ASSUME NEW r \in Request, DeleteSkill(r) PROVE TypeOK'
  BY <1>17, DeleteSkillEffect DEF Crossed
<1>18. ASSUME NEW r \in Request, InsertOverride(r) PROVE TypeOK'
  BY <1>18, InsertOverrideEffect
<1>19. ASSUME NEW r \in Request, UpdateOverride(r) PROVE TypeOK'
  BY <1>19, UpdateOverrideEffect
<1>20. ASSUME NEW r \in Request, DeleteOverride(r) PROVE TypeOK'
  BY <1>20, DeleteOverrideEffect DEF Crossed
<1>21. CASE UNCHANGED vars
  BY <1>21 DEF vars, history
<1> HIDE DEF TypeOK
<1>22. QED
  BY <1>1, <1>2, <1>3, <1>4, <1>5, <1>6, <1>7, <1>8, <1>9, <1>10, <1>11, <1>12, <1>13,
     <1>14, <1>15, <1>16, <1>17, <1>18, <1>19, <1>20, <1>21 DEF Next, Boot, Handle

(* A request leaves the consoles alone.                                    *)
LEMMA RequestFrame ==
  ASSUME TypeOK, RequestsServed, NEW r \in Request, Arrive(r) \/ Handle(r)
  PROVE  UNCHANGED <<PORT_AUTO, oneDb, listener, con, starts>>
<1>1. CASE Arrive(r)
  BY <1>1, ArriveEffect
<1>2. CASE Handle(r)
  BY <1>2 DEF Handle, RequestFails, Lookup, FindOverride, InsertSkill, UpdateSkill, DeleteSkill,
              InsertOverride, UpdateOverride, DeleteOverride, Become
<1>3. QED
  BY <1>1, <1>2

(* What a step can do to a console: go on while it holds its port, ...     *)
GoesOn(c) ==
  /\ con[c].pc \in Listening
  /\ \E pc \in Listening, at \in 0..Len(Schema) : ConBecomes(c, pc, con[c].port, con[c].tries, at)
  /\ UNCHANGED <<PORT_AUTO, oneDb, listener>>

(* ... be started, ...                                                     *)
Starts(c) ==
  /\ con[c].pc \in {"off", "exited"}
  /\ ConBecomes(c, "listen", con[c].port, MaxTries, con[c].at)
  /\ UNCHANGED <<PORT_AUTO, oneDb, listener>>

(* ... bind, ...                                                           *)
Binds(c) ==
  /\ con[c].pc = "listen" /\ Free(con[c].port)
  /\ ConBecomes(c, "check", con[c].port, 0, 1)
  /\ listener' \in [Port -> Console \cup {None}] /\ listener'[con[c].port] = c
  /\ \A p \in Port : p # con[c].port => listener'[p] = listener[p]
  /\ UNCHANGED <<PORT_AUTO, oneDb>>

(* ... try the next port, ...                                              *)
Tries(c) ==
  /\ con[c].pc = "listen" /\ ~Free(con[c].port)
  /\ PORT_AUTO /\ con[c].tries > 0 /\ con[c].port < MaxPort
  /\ ConBecomes(c, "listen", con[c].port + 1, con[c].tries - 1, con[c].at)
  /\ UNCHANGED <<PORT_AUTO, oneDb, listener>>

(* ... or end.                                                             *)
Ends(c, pc) ==
  /\ con[c].pc \notin {"off", "exited"} /\ pc \in {"off", "exited"}
  /\ ConBecomes(c, pc, PORT[c], 0, 0)
  /\ listener' \in [Port -> Console \cup {None}]
  /\ \A p \in Port : listener'[p] = IF listener[p] = c THEN None ELSE listener[p]
  /\ UNCHANGED <<PORT_AUTO, oneDb>>

(* Every step of the system does one of these to one console, or leaves all*)
(* of them alone.                                                          *)
LEMMA ConsoleStep ==
  ASSUME TypeOK, RequestsServed, [Next]_vars
  PROVE  \/ UNCHANGED <<PORT_AUTO, oneDb, listener, con>>
         \/ \E c \in Console : GoesOn(c) \/ Starts(c) \/ Binds(c) \/ Tries(c)
         \/ \E c \in Console, pc \in {"off", "exited"} : Ends(c, pc)
<1> USE Known
<1>1. ASSUME NEW c \in Console, Start(c) PROVE Starts(c)
  BY <1>1, StartEffect DEF Starts
<1>2. ASSUME NEW c \in Console, Stop(c) PROVE Ends(c, "off")
  BY <1>2, StopEffect DEF Ends, Leaves
<1>3. ASSUME NEW c \in Console, Bind(c) PROVE Binds(c)
  BY <1>3, BindEffect DEF Binds
<1>4. ASSUME NEW c \in Console, NextPort(c) PROVE Tries(c)
  BY <1>4, NextPortEffect DEF Tries
<1>5. ASSUME NEW c \in Console, GiveUp(c) PROVE Ends(c, "exited")
  BY <1>5, GiveUpEffect DEF Ends, Leaves
<1>6. ASSUME NEW c \in Console, con[c].pc \in {"check", "create"}, Advances(c),
             UNCHANGED <<PORT_AUTO, oneDb, listener>>
      PROVE  GoesOn(c)
  <2>1. con[c].at \in 0..Len(Schema) /\ Len(Schema) \in Nat
    BY DbOfType, SchemaShape
  <2>2. PICK pc \in Listening, at \in 0..Len(Schema) : ConBecomes(c, pc, con[c].port, con[c].tries, at)
    BY <1>6, <2>1 DEF Advances
  <2>3. QED
    BY <1>6, <2>2 DEF GoesOn
<1>7. ASSUME NEW c \in Console, Check(c) PROVE GoesOn(c)
  <2>1. con[c].pc = "check" /\ UNCHANGED <<PORT_AUTO, oneDb, listener>>
    BY <1>7, CheckEffect
  <2>2. con[c].at \in 0..Len(Schema)
    BY DbOfType
  <2>3. Advances(c) \/ ConBecomes(c, "create", con[c].port, con[c].tries, con[c].at)
    BY <1>7, CheckEffect
  <2>4. QED
    BY <1>6, <2>1, <2>2, <2>3 DEF GoesOn
<1>8. ASSUME NEW c \in Console, Create(c) PROVE GoesOn(c)
  BY <1>6, <1>8, CreateEffect
<1>9. ASSUME NEW c \in Console, CountSkills(c) PROVE GoesOn(c)
  BY <1>9, CountSkillsEffect, SchemaShape DEF GoesOn
<1>10. ASSUME NEW c \in Console, Seed(c) PROVE GoesOn(c)
  <2>1. /\ con[c].pc = "seed" /\ ConBecomes(c, "serving", con[c].port, con[c].tries, 0)
        /\ UNCHANGED <<PORT_AUTO, oneDb, listener>>
    BY <1>10, SeedEffect
  <2>2. QED
    BY <2>1, SchemaShape DEF GoesOn
<1>11. ASSUME NEW c \in Console, BootFails(c) PROVE Ends(c, "exited")
  BY <1>11, BootFailsEffect DEF Ends, Leaves
<1>12. ASSUME NEW r \in Request, Arrive(r) \/ Handle(r) PROVE UNCHANGED <<PORT_AUTO, oneDb, listener, con>>
  BY <1>12, RequestFrame
<1>13. CASE UNCHANGED vars
  BY <1>13 DEF vars
<1>14. QED
  BY <1>1, <1>2, <1>3, <1>4, <1>5, <1>7, <1>8, <1>9, <1>10, <1>11, <1>12, <1>13 DEF Next, Boot

(* The number of tries is one.                                             *)
LEMMA MaxTriesNat == MaxTries \in Nat
  BY ConsoleAssumption

(* Ports are with their holders, ...                                       *)
LEMMA PortsStep ==
  ASSUME TypeOK, RequestsServed, PortsHeld, [Next]_vars
  PROVE  PortsHeld'
<1> USE DbOfType DEF ConBecomes, PortsHeld, Listening, Booting
<1>1. CASE UNCHANGED <<PORT_AUTO, oneDb, listener, con>>
  BY <1>1
<1>2. ASSUME NEW c \in Console, GoesOn(c) PROVE PortsHeld'
  BY <1>2 DEF GoesOn
<1>3. ASSUME NEW c \in Console, Starts(c) PROVE PortsHeld'
  BY <1>3 DEF Starts
<1>4. ASSUME NEW c \in Console, Binds(c) PROVE PortsHeld'
  <2>1. ASSUME NEW x \in Console, con'[x].pc \in Listening 
        PROVE  listener'[con'[x].port] = x /\ con'[x].port \notin Taken
    BY <1>4, <2>1, ConsoleAssumption DEF Binds, Free
  <2>2. ASSUME NEW p \in Port, listener'[p] # None
        PROVE  con'[listener'[p]].pc \in Listening /\ con'[listener'[p]].port = p
    BY <1>4, <2>2 DEF Binds, Free
  <2>3. QED
    BY <2>1, <2>2
<1>5. ASSUME NEW c \in Console, Tries(c) PROVE PortsHeld'
  <2>1. /\ con[c].pc \notin Listening /\ con'[c].pc \notin Listening /\ UNCHANGED listener
        /\ \A x \in Console : x # c => con'[x] = con[x]
    BY <1>5 DEF Tries
  <2>2. \A x \in Console : con'[x].pc \in Listening => con'[x] = con[x]
    BY <2>1
  <2>3. \A p \in Port : listener[p] # None => listener[p] # c /\ con'[listener[p]] = con[listener[p]]
    <3>1. \A p \in Port : listener[p] \in Console \cup {None}
      BY DEF TypeOK
    <3>2. QED
      BY <2>1, <3>1
  <2>4. QED
    BY ONLY <2>1, <2>2, <2>3, PortsHeld DEF PortsHeld
<1>6. ASSUME NEW c \in Console, NEW pc \in {"off", "exited"}, Ends(c, pc) PROVE PortsHeld'
  <2>1. ASSUME NEW x \in Console, con'[x].pc \in Listening 
        PROVE  listener'[con'[x].port] = x /\ con'[x].port \notin Taken
    <3>1. x # c
      BY <1>6, <2>1 DEF Ends
    <3>2. con'[x] = con[x]
      BY <1>6, <3>1 DEF Ends
    <3>3. con[x].port \in Port /\ listener[con[x].port] = x /\ con[x].port \notin Taken
      BY <2>1, <3>2
    <3>4. QED
      BY <1>6, <3>1, <3>2, <3>3 DEF Ends
  <2>2. ASSUME NEW p \in Port, listener'[p] # None
        PROVE  con'[listener'[p]].pc \in Listening /\ con'[listener'[p]].port = p
    BY <1>6, <2>2 DEF Ends, Free
  <2>3. QED
    BY <2>1, <2>2
<1> HIDE DEF PortsHeld
<1>7. QED
  BY <1>1, <1>2, <1>3, <1>4, <1>5, <1>6, ConsoleStep

(* ... tried from the first on, ...                                        *)
LEMMA TriedStep ==
  ASSUME TypeOK, RequestsServed, PortsTried, [Next]_vars
  PROVE  PortsTried'
<1> USE DbOfType, MaxTriesNat DEF ConBecomes, PortsTried
<1>1. CASE UNCHANGED <<PORT_AUTO, oneDb, listener, con>>
  BY <1>1
<1>2. ASSUME NEW c \in Console, GoesOn(c) PROVE PortsTried'
  <2>1. ASSUME NEW x \in Console
        PROVE  PORT[x] <= con'[x].port /\ con'[x].port + con'[x].tries <= PORT[x] + MaxTries
    <3>1. CASE x = c
      BY <1>2, <3>1 DEF GoesOn
    <3>2. CASE x # c
      BY <1>2, <3>2 DEF GoesOn
    <3>3. QED
      BY <3>1, <3>2
  <2>2. ASSUME NEW x \in Console, con'[x].pc \in {"off", "exited"} \/ ~PORT_AUTO'
        PROVE  con'[x].port = PORT[x]
    BY <1>2, <2>2 DEF GoesOn, Listening, Booting
  <2>3. QED
    BY <2>1, <2>2
<1>3. ASSUME NEW c \in Console, Starts(c) PROVE PortsTried'
  <2>1. ASSUME NEW x \in Console
        PROVE  PORT[x] <= con'[x].port /\ con'[x].port + con'[x].tries <= PORT[x] + MaxTries
    <3>1. CASE x = c
      BY <1>3, <3>1 DEF Starts
    <3>2. CASE x # c
      BY <1>3, <3>2 DEF Starts
    <3>3. QED
      BY <3>1, <3>2
  <2>2. ASSUME NEW x \in Console, con'[x].pc \in {"off", "exited"} \/ ~PORT_AUTO'
        PROVE  con'[x].port = PORT[x]
    BY <1>3, <2>2 DEF Starts, Listening, Booting
  <2>3. QED
    BY <2>1, <2>2
<1>4. ASSUME NEW c \in Console, Binds(c) PROVE PortsTried'
  <2>1. ASSUME NEW x \in Console
        PROVE  PORT[x] <= con'[x].port /\ con'[x].port + con'[x].tries <= PORT[x] + MaxTries
    <3>1. CASE x = c
      BY <1>4, <3>1 DEF Binds
    <3>2. CASE x # c
      BY <1>4, <3>2 DEF Binds
    <3>3. QED
      BY <3>1, <3>2
  <2>2. ASSUME NEW x \in Console, con'[x].pc \in {"off", "exited"} \/ ~PORT_AUTO'
        PROVE  con'[x].port = PORT[x]
    BY <1>4, <2>2 DEF Binds, Listening, Booting
  <2>3. QED
    BY <2>1, <2>2
<1>5. ASSUME NEW c \in Console, Tries(c) PROVE PortsTried'
  <2>1. ASSUME NEW x \in Console
        PROVE  PORT[x] <= con'[x].port /\ con'[x].port + con'[x].tries <= PORT[x] + MaxTries
    <3>1. CASE x = c
      BY <1>5, <3>1 DEF Tries
    <3>2. CASE x # c
      BY <1>5, <3>2 DEF Tries
    <3>3. QED
      BY <3>1, <3>2
  <2>2. ASSUME NEW x \in Console, con'[x].pc \in {"off", "exited"} \/ ~PORT_AUTO'
        PROVE  con'[x].port = PORT[x]
    BY <1>5, <2>2 DEF Tries, Listening, Booting
  <2>3. QED
    BY <2>1, <2>2
<1>6. ASSUME NEW c \in Console, NEW pc \in {"off", "exited"}, Ends(c, pc) PROVE PortsTried'
  <2>1. ASSUME NEW x \in Console
        PROVE  PORT[x] <= con'[x].port /\ con'[x].port + con'[x].tries <= PORT[x] + MaxTries
    <3>1. CASE x = c
      BY <1>6, <3>1 DEF Ends
    <3>2. CASE x # c
      BY <1>6, <3>2 DEF Ends
    <3>3. QED
      BY <3>1, <3>2
  <2>2. ASSUME NEW x \in Console, con'[x].pc \in {"off", "exited"} \/ ~PORT_AUTO'
        PROVE  con'[x].port = PORT[x]
    BY <1>6, <2>2 DEF Ends, Listening, Booting
  <2>3. QED
    BY <2>1, <2>2
<1> HIDE DEF PortsTried
<1>7. QED
  BY <1>1, <1>2, <1>3, <1>4, <1>5, <1>6, ConsoleStep

-----------------------------------------------------------------------------
(* Tables are only ever added, and only four steps write skills.           *)
LEMMA DatabaseStep ==
  ASSUME TypeOK, RequestsServed, [Next]_vars
  PROVE  /\ early \subseteq early' /\ UNCHANGED <<PORT_AUTO, oneDb>>
         /\ \A d \in Db : db[d].schema \subseteq db'[d].schema /\ db'[d].schema \subseteq Objects
         /\ \/ \A d \in Db : db'[d].skills = db[d].skills
            \/ \E c \in Console : Seed(c)
            \/ \E r \in Request : InsertSkill(r) \/ UpdateSkill(r) \/ DeleteSkill(r)
<1> DEFINE Grows == \A d \in Db : db[d].schema \subseteq db'[d].schema
           Same  == early' = early /\ UNCHANGED <<PORT_AUTO, oneDb>> /\ Grows
           Still == Same /\ \A d \in Db : db'[d].skills = db[d].skills
           Goal  == /\ early \subseteq early' /\ UNCHANGED <<PORT_AUTO, oneDb>> /\ Grows
                    /\ \/ \A d \in Db : db'[d].skills = db[d].skills
                       \/ \E c \in Console : Seed(c)
                       \/ \E r \in Request : InsertSkill(r) \/ UpdateSkill(r) \/ DeleteSkill(r)
<1>1. ASSUME NEW c \in Console, Start(c) PROVE Still
  BY <1>1, StartEffect
<1>2. ASSUME NEW c \in Console, Stop(c) PROVE Still
  BY <1>2, StopEffect DEF Leaves
<1>3. ASSUME NEW c \in Console, Bind(c) PROVE Still
  BY <1>3, BindEffect
<1>4. ASSUME NEW c \in Console, NextPort(c) PROVE Still
  BY <1>4, NextPortEffect
<1>5. ASSUME NEW c \in Console, GiveUp(c) PROVE Still
  BY <1>5, GiveUpEffect DEF Leaves
<1>6. ASSUME NEW c \in Console, Check(c) PROVE Still
  BY <1>6, CheckEffect
<1>7. ASSUME NEW c \in Console, Create(c) PROVE Still
  <2>1. PICK schema \in SUBSET Objects : db[DbOf(c)].schema \subseteq schema /\ Schemed(DbOf(c), schema)
    BY <1>7, CreateEffect
  <2>2. UNCHANGED <<PORT_AUTO, oneDb, early>>
    BY <1>7, CreateEffect
  <2>3. QED
    BY <2>1, <2>2 DEF Schemed
<1>8. ASSUME NEW c \in Console, CountSkills(c) PROVE Still
  BY <1>8, CountSkillsEffect
<1>9. ASSUME NEW c \in Console, Seed(c) PROVE Same
  <2>1. PICK skills : Skilled(DbOf(c), skills)
    BY <1>9, SeedEffect
  <2>2. UNCHANGED <<PORT_AUTO, oneDb, early>>
    BY <1>9, SeedEffect
  <2>3. QED
    BY <2>1, <2>2 DEF Skilled
<1>10. ASSUME NEW c \in Console, BootFails(c) PROVE Still
  BY <1>10, BootFailsEffect DEF Leaves
<1>11. ASSUME NEW r \in Request, Arrive(r) PROVE Still
  BY <1>11, ArriveEffect
<1>12. ASSUME NEW r \in Request, RequestFails(r) PROVE Still
  BY <1>12, RequestFailsEffect DEF Turns
<1>13. ASSUME NEW r \in Request, Lookup(r) PROVE Still
  BY <1>13, LookupEffect, RequestFrame DEF Handle
<1>14. ASSUME NEW r \in Request, FindOverride(r) PROVE Still
  BY <1>14, FindOverrideEffect, RequestFrame DEF Handle
<1>15. ASSUME NEW r \in Request, InsertSkill(r) PROVE early \subseteq early' /\ UNCHANGED <<PORT_AUTO, oneDb>> /\ Grows
  BY <1>15, InsertSkillEffect, RequestFrame DEF Handle, Skilled
<1>16. ASSUME NEW r \in Request, UpdateSkill(r) PROVE Same
  <2>1. UNCHANGED db \/ \E row \in Row : Skilled(D(r), [db[D(r)].skills EXCEPT ![req[r].skill] = row])
    BY <1>16, UpdateSkillEffect
  <2>2. UNCHANGED <<PORT_AUTO, oneDb, early>>
    BY <1>16, UpdateSkillEffect, RequestFrame DEF Handle
  <2>3. QED
    BY <2>1, <2>2 DEF Skilled
<1>17. ASSUME NEW r \in Request, DeleteSkill(r) PROVE Same
  BY <1>17, DeleteSkillEffect, RequestFrame DEF Handle, Skilled
<1>18. ASSUME NEW r \in Request, InsertOverride(r) PROVE Still
  BY <1>18, InsertOverrideEffect, RequestFrame DEF Handle, Overridden
<1>19. ASSUME NEW r \in Request, UpdateOverride(r) PROVE Still
  BY <1>19, UpdateOverrideEffect, RequestFrame DEF Handle, Overridden
<1>20. ASSUME NEW r \in Request, DeleteOverride(r) PROVE Still
  BY <1>20, DeleteOverrideEffect, RequestFrame DEF Handle, Overridden
<1>21. ASSUME UNCHANGED vars PROVE Still
  <2>1. UNCHANGED <<PORT_AUTO, oneDb, early, db>>
    BY <1>21 DEF vars, history
  <2>2. QED
    BY <2>1
<1>22. Goal
  <2> HIDE DEF Grows
  <2>1. Still => Goal
    OBVIOUS
  <2>2. (\E c \in Console : Seed(c)) /\ Same => Goal
    OBVIOUS
  <2>3. (\E r \in Request : UpdateSkill(r) \/ DeleteSkill(r)) /\ Same => Goal
    OBVIOUS
  <2>4. ASSUME NEW r \in Request, InsertSkill(r) PROVE Goal
    BY <1>15, <2>4
  <2> HIDE DEF Goal, Still, Same
  <2>5. ASSUME NEW c \in Console, Start(c) \/ Stop(c) \/ Boot(c) PROVE Goal
    BY <1>1, <1>2, <1>3, <1>4, <1>5, <1>6, <1>7, <1>8, <1>9, <1>10, <2>1, <2>2, <2>5 DEF Boot
  <2>6. ASSUME NEW r \in Request, Arrive(r) \/ Handle(r) PROVE Goal
    BY <1>11, <1>12, <1>13, <1>14, <1>16, <1>17, <1>18, <1>19, <1>20, <2>1, <2>3, <2>4, <2>6
       DEF Handle
  <2>7. QED
    BY <1>21, <2>1, <2>5, <2>6 DEF Next
<1>23. \A d \in Db : db'[d].schema \subseteq Objects
  BY TypeStep DEF TypeOK, Database
<1>24. QED
  BY <1>22, <1>23

(* A console that a step leaves alone has the database it had.             *)
LEMMA DbKept ==
  ASSUME UNCHANGED oneDb, NEW c \in Console, con'[c].port = con[c].port
  PROVE  DbOf(c)' = DbOf(c)
  BY DEF DbOf

(* What the skills of a database that was seeded first go through is a step *)
(* of SkillLibrary, and a library that was empty is whole thereafter.      *)
LEMMA SkillsStep ==
  ASSUME TypeOK, RequestsServed, LibrarySound, [Next]_vars, NEW d \in Db, d \notin early'
  PROVE  \/ db'[d].skills = db[d].skills
         \/ Library(d)!Next /\ (Names(d) = {} => BuiltInThere(d)')
<1>1. /\ d \notin early
      /\ Names(d) = {} \/ BuiltInThere(d)
      /\ \A n \in Skill \ BuiltIn : db[d].skills[n] # None => db[d].skills[n].source = "imported"
      /\ db[d].skills \in [Skill -> Row \cup {None}]
  BY DatabaseStep DEF LibrarySound, TypeOK, Database
<1>2. ASSUME NEW c \in Console, Seed(c), DbOf(c) = d PROVE Library(d)!Next /\ BuiltInThere(d)'
  <2>1. PICK skills \in [Skill -> Row \cup {None}] :
          /\ \A n \in Skill : skills[n] = IF n \in BuiltIn THEN [source |-> "built-in", text |-> OnDisk]
                                          ELSE db[d].skills[n]
          /\ Skilled(d, skills)
    BY <1>2, SeedEffect
  <2>2. Names(d) = {}
    BY <1>1, <1>2, SeedEffect, ConsoleAssumption DEF Names, BuiltInThere
  <2>3. \A n \in Skill : db[d].skills[n] = None
    BY <2>2 DEF Names
  <2>4. db[d].skills = [n \in Skill |-> None]
    BY <1>1, <2>3
  <2>5. PICK row : row = [source |-> "built-in", text |-> OnDisk]
    OBVIOUS
  <2>6. skills = [n \in Skill |-> IF n \in BuiltIn THEN row ELSE None]
    BY <2>1, <2>3, <2>5
  <2>7. db'[d].skills = skills
    BY <2>1 DEF Skilled
  <2>8. Library(d)!Seed
    BY <2>4, <2>5, <2>6, <2>7 DEF Library!Seed, Library!Empty, Library!Seeded
  <2>9. row # None /\ row.source = "built-in"
    BY <2>5, ConsoleAssumption DEF Row
  <2>10. BuiltInThere(d)'
    BY <2>6, <2>7, <2>9, ConsoleAssumption DEF BuiltInThere
  <2>11. QED
    BY <2>8, <2>10 DEF Library!Next
<1>3. ASSUME NEW r \in Request, InsertSkill(r), D(r) = d PROVE Library(d)!Next /\ Names(d) # {}
  <2>1. req[r].pc = "insert" /\ req[r].pc \in Open
    BY <1>3, InsertSkillEffect DEF Open
  <2>2. req[r].skill \in Skill
    BY <2>1, DType
  <2>3. Names(d) # {}
    BY <1>3, InsertSkillEffect
  <2>4. db[d].skills[req[r].skill] = None
    BY <1>3, InsertSkillEffect DEF Found
  <2>5. db'[d].skills = [db[d].skills EXCEPT ![req[r].skill] = [source |-> "imported", text |-> r]]
    BY <1>3, InsertSkillEffect DEF Skilled
  <2>6. Library(d)!Import(req[r].skill, r)
    BY <2>4, <2>5 DEF Library!Import
  <2>7. QED
    BY <2>2, <2>3, <2>6 DEF Library!Next
<1>4. ASSUME NEW r \in Request, UpdateSkill(r), D(r) = d, db'[d].skills # db[d].skills
      PROVE  Library(d)!Next /\ Names(d) # {}
  <2>1. req[r].pc = "update" /\ req[r].pc \in Open
    BY <1>4, UpdateSkillEffect DEF Open
  <2>2. req[r].skill \in Skill
    BY <2>1, DType
  <2>3. PICK row \in Row : /\ row = [Found(r) EXCEPT !.text = r]
                           /\ Skilled(D(r), [db[D(r)].skills EXCEPT ![req[r].skill] = row])
    BY <1>4, UpdateSkillEffect
  <2>4. Found(r) # None
    BY <1>4, UpdateSkillEffect
  <2>5. db[d].skills[req[r].skill] # None /\ Names(d) # {}
    BY <1>4, <2>2, <2>4 DEF Found, Names
  <2>6. db'[d].skills = [db[d].skills EXCEPT ![req[r].skill] = row]
    BY <1>4, <2>3 DEF Skilled
  <2>7. row = [db[d].skills[req[r].skill] EXCEPT !.text = r]
    BY <1>4, <2>3 DEF Found
  <2>8. Library(d)!Edit(req[r].skill, r)
    BY <1>1, <2>2, <2>5, <2>6, <2>7 DEF Library!Edit
  <2>9. QED
    BY <2>2, <2>5, <2>8 DEF Library!Next
<1>5. ASSUME NEW r \in Request, DeleteSkill(r), D(r) = d, db'[d].skills # db[d].skills
      PROVE  Library(d)!Next /\ Names(d) # {}
  <2>1. req[r].pc = "update" /\ req[r].op = "delete" /\ req[r].pc \in Open
    BY <1>5, DeleteSkillEffect DEF Open
  <2>2. req[r].skill \in Skill /\ req[r].skill \notin BuiltIn
    BY <1>1, <1>5, <2>1, DType DEF RequestsServed
  <2>3. db'[d].skills = [db[d].skills EXCEPT ![req[r].skill] = None]
    BY <1>5, DeleteSkillEffect DEF Skilled
  <2>4. db[d].skills[req[r].skill] # None
    BY <1>1, <1>5, <2>2, <2>3
  <2>5. Library(d)!Delete(req[r].skill)
    BY <1>1, <2>2, <2>3, <2>4 DEF Library!Delete
  <2>6. QED
    BY <2>2, <2>4, <2>5 DEF Library!Next, Names
<1>6. ASSUME NEW c \in Console, Seed(c), DbOf(c) # d PROVE db'[d].skills = db[d].skills
  <2>1. PICK skills : Skilled(DbOf(c), skills)
    BY <1>6, SeedEffect
  <2>2. QED
    BY <1>6, <2>1 DEF Skilled
<1>7. ASSUME NEW r \in Request, InsertSkill(r) \/ UpdateSkill(r) \/ DeleteSkill(r), D(r) # d
      PROVE  db'[d].skills = db[d].skills
  <2>1. UNCHANGED db \/ \E skills : Skilled(D(r), skills)
    BY <1>7, InsertSkillEffect, UpdateSkillEffect, DeleteSkillEffect
  <2>2. QED
    BY <1>7, <2>1 DEF Skilled
<1>8. QED
  BY <1>2, <1>3, <1>4, <1>5, <1>6, <1>7, DatabaseStep

(* So a library that no import was ahead of stays empty or whole, and one  *)
(* that is being served stays whole.                                       *)
LEMMA LibraryStep ==
  ASSUME TypeOK, RequestsServed, LibrarySound, [Next]_vars
  PROVE  LibrarySound'
<1>1. ASSUME NEW d \in Db, d \notin early'
      PROVE  /\ Names(d)' = {} \/ BuiltInThere(d)'
             /\ \A n \in Skill \ BuiltIn : db'[d].skills[n] # None => db'[d].skills[n].source = "imported"
             /\ BuiltInThere(d) => BuiltInThere(d)'
             /\ Names(d) # {} => BuiltInThere(d)
  <2>1. d \notin early
    BY <1>1, DatabaseStep
  <2>2. /\ Names(d) = {} \/ BuiltInThere(d)
        /\ \A n \in Skill \ BuiltIn : db[d].skills[n] # None => db[d].skills[n].source = "imported"
        /\ db[d].skills \in [Skill -> Row \cup {None}]
    BY <2>1 DEF LibrarySound, TypeOK, Database
  <2>3. CASE db'[d].skills = db[d].skills
    BY <2>2, <2>3 DEF Names, BuiltInThere
  <2>4. CASE Library(d)!Seed /\ (Names(d) = {} => BuiltInThere(d)')
    <3>1. PICK row : row = [source |-> "built-in", text |-> OnDisk]
      OBVIOUS
    <3>2. /\ db[d].skills = [n \in Skill |-> None]
          /\ db'[d].skills = [n \in Skill |-> IF n \in BuiltIn THEN row ELSE None]
      BY <2>4, <3>1 DEF Library!Seed, Library!Empty, Library!Seeded
    <3>3. Names(d) = {}
      BY <3>2 DEF Names
    <3>4. ~BuiltInThere(d)
      BY <3>3, ConsoleAssumption DEF BuiltInThere, Names
    <3>5. QED
      BY <2>4, <3>2, <3>3, <3>4
  <2>5. ASSUME NEW n \in Skill, Library(d)!Delete(n), Names(d) = {} => BuiltInThere(d)'
        PROVE  /\ Names(d)' = {} \/ BuiltInThere(d)'
               /\ \A m \in Skill \ BuiltIn : db'[d].skills[m] # None => db'[d].skills[m].source = "imported"
               /\ BuiltInThere(d) => BuiltInThere(d)'
    <3>1. /\ db[d].skills[n] # None /\ db[d].skills[n].source = "imported"
          /\ db'[d].skills = [db[d].skills EXCEPT ![n] = None]
      BY <2>5 DEF Library!Delete
    <3>2. BuiltInThere(d)
      BY <2>2, <3>1 DEF Names
    <3>3. n \notin BuiltIn
      BY <3>1, <3>2 DEF BuiltInThere
    <3>4. BuiltInThere(d)'
      BY <2>2, <3>1, <3>2, <3>3, ConsoleAssumption DEF BuiltInThere
    <3>5. QED
      BY <2>2, <3>1, <3>4
  <2>6. ASSUME NEW n \in Skill, NEW t \in Request, Library(d)!Edit(n, t), Names(d) = {} => BuiltInThere(d)'
        PROVE  /\ Names(d)' = {} \/ BuiltInThere(d)'
               /\ \A m \in Skill \ BuiltIn : db'[d].skills[m] # None => db'[d].skills[m].source = "imported"
               /\ BuiltInThere(d) => BuiltInThere(d)'
    <3>1. /\ db[d].skills[n] # None
          /\ db'[d].skills = [db[d].skills EXCEPT ![n].text = t]
      BY <2>6 DEF Library!Edit
    <3>2. BuiltInThere(d) /\ db[d].skills[n] \in Row
      BY <2>2, <3>1 DEF Names
    <3>3. PICK row : row = [db[d].skills[n] EXCEPT !.text = t]
      OBVIOUS
    <3>4. row \in Row /\ row.source = db[d].skills[n].source
      BY <3>2, <3>3 DEF Row
    <3>5. row # None
      BY <3>4, ConsoleAssumption
    <3>6. db'[d].skills = [db[d].skills EXCEPT ![n] = row]
      BY <3>1, <3>3
    <3>7. BuiltInThere(d)'
      BY <2>2, <3>2, <3>4, <3>5, <3>6, ConsoleAssumption DEF BuiltInThere
    <3>8. QED
      BY <2>2, <3>1, <3>4, <3>6, <3>7
  <2>7. ASSUME NEW n \in Skill, NEW t \in Request, Library(d)!Import(n, t), Names(d) = {} => BuiltInThere(d)'
        PROVE  /\ Names(d)' = {} \/ BuiltInThere(d)'
               /\ \A m \in Skill \ BuiltIn : db'[d].skills[m] # None => db'[d].skills[m].source = "imported"
               /\ BuiltInThere(d) => BuiltInThere(d)'
    <3>1. PICK row \in Row : row = [source |-> "imported", text |-> t]
      BY DEF Row
    <3>2. /\ db[d].skills[n] = None
          /\ db'[d].skills = [db[d].skills EXCEPT ![n] = row]
      BY <2>7, <3>1 DEF Library!Import
    <3>3. row.source = "imported"
      BY <3>1
    <3>4. BuiltInThere(d) => BuiltInThere(d)'
      BY <2>2, <3>2, ConsoleAssumption DEF BuiltInThere
    <3>5. QED
      BY <2>2, <2>7, <3>2, <3>3, <3>4
  <2>8. \/ db'[d].skills = db[d].skills
        \/ Library(d)!Next /\ (Names(d) = {} => BuiltInThere(d)')
    BY <1>1, SkillsStep
  <2>9. Names(d) # {} => BuiltInThere(d)
    BY <2>2
  <2> DEFINE Goal == /\ Names(d)' = {} \/ BuiltInThere(d)'
                     /\ \A n \in Skill \ BuiltIn : db'[d].skills[n] # None => db'[d].skills[n].source = "imported"
                     /\ BuiltInThere(d) => BuiltInThere(d)'
  <2>10. Goal
    <3>1. db'[d].skills = db[d].skills => Goal
      BY <2>3
    <3>2. Library(d)!Seed /\ (Names(d) = {} => BuiltInThere(d)') => Goal
      BY <2>4
    <3>3. \A n \in Skill : Library(d)!Delete(n) /\ (Names(d) = {} => BuiltInThere(d)') => Goal
      BY <2>5
    <3>4. \A n \in Skill, t \in Request :
            Library(d)!Edit(n, t) /\ (Names(d) = {} => BuiltInThere(d)') => Goal
      BY <2>6
    <3>5. \A n \in Skill, t \in Request :
            Library(d)!Import(n, t) /\ (Names(d) = {} => BuiltInThere(d)') => Goal
      BY <2>7
    <3> HIDE DEF Goal
    <3>6. QED
      BY <2>8, <3>1, <3>2, <3>3, <3>4, <3>5 DEF Library!Next
  <2>11. QED
    BY <2>9, <2>10
<1>2. ASSUME NEW c \in Console, con'[c].pc = "serving"
      PROVE  DbOf(c)' \in early' \/ BuiltInThere(DbOf(c))'
  <2> DEFINE Counts == con[c].pc = "count" /\ Names(DbOf(c)) # {}
             Sows   == Seed(c)
  <2>1. \/ con'[c].port = con[c].port /\ con[c].pc = "serving"
        \/ con'[c].port = con[c].port /\ Counts
        \/ con'[c].port = con[c].port /\ Sows
    <3>1. ASSUME NEW x \in Console, Start(x) \/ Stop(x) \/ Bind(x) \/ NextPort(x) \/ GiveUp(x) \/ BootFails(x)
          PROVE  con'[c] = con[c]
      BY <1>2, <3>1, StartEffect, StopEffect, BindEffect, NextPortEffect, GiveUpEffect, BootFailsEffect
         DEF Leaves, ConBecomes
    <3>2. ASSUME NEW x \in Console, Check(x) \/ Create(x) PROVE con'[c] = con[c]
      BY <1>2, <3>2, CheckEffect, CreateEffect DEF Advances, ConBecomes
    <3>3. ASSUME NEW x \in Console, CountSkills(x)
          PROVE  con'[c] = con[c] \/ (con'[c].port = con[c].port /\ Counts)
      BY <1>2, <3>3, CountSkillsEffect DEF ConBecomes
    <3>4. ASSUME NEW x \in Console, Seed(x)
          PROVE  con'[c] = con[c] \/ (con'[c].port = con[c].port /\ Sows)
      <4>1. ConBecomes(x, "serving", con[x].port, con[x].tries, 0)
        BY <3>4, SeedEffect
      <4>2. QED
        BY <3>4, <4>1 DEF ConBecomes
    <3>5. ASSUME NEW r \in Request, Arrive(r) \/ Handle(r) PROVE con'[c] = con[c]
      BY <3>5, RequestFrame
    <3>6. CASE UNCHANGED vars
      BY <1>2, <3>6 DEF vars
    <3> HIDE DEF Counts, Sows
    <3>7. QED
      BY <1>2, <3>1, <3>2, <3>3, <3>4, <3>5, <3>6 DEF Next, Boot
  <2>2. PICK d \in Db : d = DbOf(c) /\ DbOf(c)' = d
    BY <2>1, DatabaseStep, DbKept, DbOfType
  <2>3. CASE con[c].pc = "serving" \/ Counts
    <3>1. d \in early \/ BuiltInThere(d) \/ Names(d) # {}
      BY <2>2, <2>3 DEF LibrarySound
    <3>2. d \in early' \/ BuiltInThere(d)'
      BY <1>1, <3>1, DatabaseStep
    <3>3. QED
      BY <2>2, <3>2 DEF BuiltInThere
  <2>4. CASE Sows
    <3>1. PICK row \in Row : row = [source |-> "built-in", text |-> OnDisk]
      BY DEF Row
    <3>2. PICK skills \in [Skill -> Row \cup {None}] :
            /\ \A n \in Skill : skills[n] = IF n \in BuiltIn THEN row ELSE db[d].skills[n]
            /\ Skilled(d, skills)
      BY <2>2, <2>4, <3>1, SeedEffect
    <3>3. \A n \in BuiltIn : db'[d].skills[n] = row
      BY <3>2, ConsoleAssumption DEF Skilled
    <3>4. row # None /\ row.source = "built-in"
      BY <3>1, ConsoleAssumption
    <3>5. QED
      BY <2>2, <3>3, <3>4 DEF BuiltInThere
  <2>5. QED
    BY <2>1, <2>3, <2>4
<1>3. \A d \in Db : d \notin early' =>
        /\ Names(d)' = {} \/ BuiltInThere(d)'
        /\ \A n \in Skill \ BuiltIn : db'[d].skills[n] # None => db'[d].skills[n].source = "imported"
  BY <1>1
<1>4. \A c \in Console : con'[c].pc = "serving" => DbOf(c)' \in early' \/ BuiltInThere(DbOf(c))'
  BY <1>2
<1>5. QED
  BY <1>3, <1>4 DEF LibrarySound, Names, BuiltInThere

(* What a boot has seen, nobody drops, and what it was to create is there. *)
LEMMA SchemaStep ==
  ASSUME TypeOK, RequestsServed, SchemaSeen, [Next]_vars
  PROVE  SchemaSeen'
<1> DEFINE Seen(c) == /\ con[c].pc \in {"check", "create"} =>
                           \A i \in 1..con[c].at : i < con[c].at => Schema[i] \in db[DbOf(c)].schema
                      /\ con[c].pc \in {"count", "seed", "serving"} => db[DbOf(c)].schema = Objects
<1>1. ASSUME NEW c \in Console, con'[c] = con[c] PROVE Seen(c)'
  <2>1. PICK d \in Db : DbOf(c) = d /\ DbOf(c)' = d
    BY <1>1, DatabaseStep, DbKept, DbOfType
  <2>2. db[d].schema \subseteq db'[d].schema /\ db'[d].schema \subseteq Objects
    BY <2>1, DatabaseStep
  <2>3. /\ con[c].pc \in {"check", "create"} =>
              \A i \in 1..con[c].at : i < con[c].at => Schema[i] \in db[d].schema
        /\ con[c].pc \in {"count", "seed", "serving"} => db[d].schema = Objects
    BY <2>1 DEF SchemaSeen
  <2>4. /\ con'[c].pc \in {"check", "create"} =>
              \A i \in 1..con'[c].at : i < con'[c].at => Schema[i] \in db'[d].schema
        /\ con'[c].pc \in {"count", "seed", "serving"} => db'[d].schema = Objects
    BY <1>1, <2>2, <2>3
  <2>5. QED
    BY <2>1, <2>4
<1>2. ASSUME NEW c \in Console, con'[c].pc \in {"off", "listen", "exited"} PROVE Seen(c)'
  BY <1>2
<1>3. ASSUME NEW c \in Console, con[c].pc \in {"check", "create"}, Advances(c),
             Schema[con[c].at] \in db'[DbOf(c)].schema
      PROVE  Seen(c)'
  <2>1. con'[c].port = con[c].port /\ con[c].at \in 1..Len(Schema) /\ Len(Schema) \in Nat
    BY <1>3, SchemaShape DEF Advances, ConBecomes, TypeOK
  <2>2. PICK d \in Db : DbOf(c) = d /\ DbOf(c)' = d
    BY <2>1, DatabaseStep, DbKept, DbOfType
  <2>3. db[d].schema \subseteq db'[d].schema /\ db'[d].schema \subseteq Objects
    BY <2>2, DatabaseStep
  <2>4. \A i \in 1..con[c].at : Schema[i] \in db'[d].schema
    BY <1>3, <2>1, <2>2, <2>3 DEF SchemaSeen
  <2>5. CASE con[c].at = Len(Schema)
    <3>1. db'[d].schema = Objects
      BY <2>3, <2>4, <2>5, SchemaShape
    <3>2. con'[c].pc = "count"
      BY <1>3, <2>1, <2>5 DEF Advances, ConBecomes
    <3>3. QED
      BY <2>2, <3>1, <3>2
  <2>6. CASE con[c].at < Len(Schema)
    <3>1. con'[c].pc = "check" /\ con'[c].at = con[c].at + 1
      BY <1>3, <2>1, <2>6 DEF Advances, ConBecomes
    <3>2. QED
      BY <2>1, <2>2, <2>4, <3>1
  <2>7. QED
    BY <2>1, <2>5, <2>6
<1>4. ASSUME NEW c \in Console, Start(c) \/ Stop(c) \/ NextPort(c) \/ GiveUp(c) \/ BootFails(c)
      PROVE  \A x \in Console : Seen(x)'
  <2>1. con'[c].pc \in {"off", "listen", "exited"} /\ \A x \in Console : x # c => con'[x] = con[x]
    BY <1>4, StartEffect, StopEffect, NextPortEffect, GiveUpEffect, BootFailsEffect DEF Leaves, ConBecomes
  <2> HIDE DEF Seen
  <2>2. QED
    BY <1>1, <1>2, <2>1
<1>5. ASSUME NEW c \in Console, Bind(c) PROVE \A x \in Console : Seen(x)'
  <2>1. con'[c].pc = "check" /\ con'[c].at = 1 /\ \A x \in Console : x # c => con'[x] = con[x]
    BY <1>5, BindEffect DEF ConBecomes
  <2>2. Seen(c)'
    BY <2>1
  <2> HIDE DEF Seen
  <2>3. QED
    BY <1>1, <2>1, <2>2
<1>6. ASSUME NEW c \in Console, Check(c) \/ Create(c) PROVE \A x \in Console : Seen(x)'
  <2>1. DbOf(c) \in Db
    BY DbOfType
  <2>2. ASSUME NEW x \in Console, x # c PROVE con'[x] = con[x]
    BY <1>6, <2>2, CheckEffect, CreateEffect DEF Advances, ConBecomes
  <2>3. CASE Check(c) /\ Advances(c) /\ Schema[con[c].at] \in db[DbOf(c)].schema
    <3>1. Schema[con[c].at] \in db'[DbOf(c)].schema /\ con[c].pc = "check"
      BY <2>1, <2>3, DatabaseStep, CheckEffect
    <3> HIDE DEF Seen
    <3>2. QED
      BY <1>1, <1>3, <2>2, <2>3, <3>1
  <2>4. CASE Check(c) /\ ConBecomes(c, "create", con[c].port, con[c].tries, con[c].at)
    <3>1. con[c].pc = "check" /\ con'[c].pc = "create" /\ con'[c].at = con[c].at /\ con'[c].port = con[c].port
      BY <2>4, CheckEffect DEF ConBecomes
    <3>2. DbOf(c)' = DbOf(c) /\ db[DbOf(c)].schema \subseteq db'[DbOf(c)].schema
      BY <2>1, <3>1, DatabaseStep, DbKept
    <3>3. Seen(c)'
      BY <3>1, <3>2 DEF SchemaSeen
    <3> HIDE DEF Seen
    <3>4. QED
      BY <1>1, <2>2, <3>3
  <2>5. CASE Create(c)
    <3>1. con[c].pc = "create" /\ Advances(c)
      BY <2>5, CreateEffect
    <3>2. PICK schema \in SUBSET Objects : Schema[con[c].at] \in schema /\ Schemed(DbOf(c), schema)
      BY <2>5, CreateEffect
    <3>3. Schema[con[c].at] \in db'[DbOf(c)].schema
      BY <3>2 DEF Schemed
    <3> HIDE DEF Seen
    <3>4. QED
      BY <1>1, <1>3, <2>2, <3>1, <3>3
  <2> HIDE DEF Seen
  <2>6. QED
    BY <1>6, <2>3, <2>4, <2>5, CheckEffect
<1>7. ASSUME NEW c \in Console, CountSkills(c) \/ Seed(c) PROVE \A x \in Console : Seen(x)'
  <2>1. /\ con[c].pc \in {"count", "seed"} /\ con'[c].pc \in {"seed", "serving"} /\ con'[c].port = con[c].port
        /\ \A x \in Console : x # c => con'[x] = con[x]
    <3>1. CASE CountSkills(c)
      BY <3>1, CountSkillsEffect DEF ConBecomes
    <3>2. CASE Seed(c)
      <4>1. con[c].pc = "seed" /\ ConBecomes(c, "serving", con[c].port, con[c].tries, 0)
        BY <3>2, SeedEffect
      <4>2. QED
        BY <4>1 DEF ConBecomes
    <3>3. QED
      BY <1>7, <3>1, <3>2
  <2>2. DbOf(c)' = DbOf(c) /\ DbOf(c) \in Db
    BY <2>1, DatabaseStep, DbKept, DbOfType
  <2>3. db'[DbOf(c)].schema = Objects
    BY <2>1, <2>2, DatabaseStep DEF SchemaSeen
  <2>4. Seen(c)'
    BY <2>1, <2>2, <2>3
  <2> HIDE DEF Seen
  <2>5. QED
    BY <1>1, <2>1, <2>4
<1>8. ASSUME NEW r \in Request, Arrive(r) \/ Handle(r) PROVE \A x \in Console : Seen(x)'
  BY <1>1, <1>8, RequestFrame
<1>9. CASE UNCHANGED vars
  <2>1. UNCHANGED con
    BY <1>9 DEF vars
  <2> HIDE DEF Seen
  <2>2. \A x \in Console : Seen(x)'
    BY <1>1, <2>1
  <2>3. QED
    BY <2>2 DEF Seen, SchemaSeen
<1>10. (\A x \in Console : Seen(x)') => SchemaSeen'
  BY DEF SchemaSeen
<1> HIDE DEF Seen
<1>11. QED
  BY <1>4, <1>5, <1>6, <1>7, <1>8, <1>9, <1>10 DEF Next, Boot

(* A step of a console leaves a request with it, or ends them both.        *)
LEMMA RequestsFollow ==
  ASSUME TypeOK, RequestsServed, NEW c \in Console, Start(c) \/ Stop(c) \/ Boot(c), NEW r \in Request
  PROVE  /\ \/ req'[r] = req[r] /\ (r \in crossed <=> r \in crossed')
            \/ req'[r].pc = "done" /\ req'[r].con = None
         /\ req[r].pc \in Open /\ req'[r].pc \in Open =>
              /\ con'[req[r].con].pc \in Listening
              /\ D(r) \in Db /\ D(r)' = D(r)
<1>1. [Next]_vars
  BY DEF Next
<1>2. CASE Stop(c) \/ GiveUp(c) \/ BootFails(c)
  <2>1. PICK pc \in Pc : Leaves(c, pc)
    BY <1>2, StopEffect, GiveUpEffect, BootFailsEffect, Known
  <2>2. CASE req[r].con = c
    BY <2>1, <2>2 DEF Leaves, Open
  <2>3. CASE req[r].con # c
    <3>1. req'[r] = req[r] /\ (r \in crossed <=> r \in crossed')
      BY <2>1, <2>3 DEF Leaves
    <3>2. req[r].pc \in Open =>
            /\ con'[req[r].con] = con[req[r].con] /\ con[req[r].con].pc \in Listening
            /\ req[r].con \in Console /\ D(r) \in Db
      BY <2>1, <2>3, DType DEF Leaves, ConBecomes
    <3>3. UNCHANGED oneDb
      BY <2>1 DEF Leaves
    <3>4. QED
      BY <3>1, <3>2, <3>3 DEF D, DbOf
  <2>4. QED
    BY <2>2, <2>3
<1>3. CASE ~(Stop(c) \/ GiveUp(c) \/ BootFails(c))
  <2>1. UNCHANGED <<req, crossed>>
    <3>1. Start(c) \/ Bind(c) \/ NextPort(c) \/ Check(c) \/ Create(c) \/ CountSkills(c) \/ Seed(c)
      BY <1>3 DEF Boot
    <3>2. Seed(c) => UNCHANGED <<req, crossed>>
      BY SeedEffect
    <3>3. Create(c) => UNCHANGED <<req, crossed>>
      BY CreateEffect
    <3>4. QED
      BY <3>1, <3>2, <3>3, StartEffect, BindEffect, NextPortEffect, CheckEffect, CountSkillsEffect
  <2>2. ASSUME NEW x \in Console, con[x].pc \in Listening
        PROVE  con'[x].pc \in Listening /\ con'[x].port = con[x].port
    <3>1. ASSUME NEW d \in Console, NEW pc \in {"off", "exited"}, Ends(d, pc) PROVE FALSE
      <4>1. con[d].pc \notin {"off", "exited"} /\ con'[d].pc \in {"off", "exited"}
        BY <3>1 DEF Ends, ConBecomes
      <4>2. \/ Start(c) \/ Bind(c) \/ NextPort(c) \/ Check(c) \/ Create(c) \/ CountSkills(c) \/ Seed(c)
        BY <1>3 DEF Boot
      <4>3. \A y \in Console : con'[y] = con[y] \/ con'[y].pc \notin {"off", "exited"}
        <5>1. CASE Seed(c)
          <6>1. ConBecomes(c, "serving", con[c].port, con[c].tries, 0)
            BY <5>1, SeedEffect
          <6>2. QED
            BY <6>1 DEF ConBecomes
        <5>2. CASE Create(c)
          <6>1. Advances(c)
            BY <5>2, CreateEffect
          <6>2. QED
            BY <6>1 DEF Advances, ConBecomes
        <5>3. QED
          BY <4>2, <5>1, <5>2, StartEffect, BindEffect, NextPortEffect, CheckEffect, CountSkillsEffect
             DEF Advances, ConBecomes
      <4>4. QED
        BY <4>1, <4>3
    <3>2. UNCHANGED con \/ \E d \in Console : GoesOn(d) \/ Starts(d) \/ Binds(d) \/ Tries(d)
      BY <1>1, <3>1, ConsoleStep
    <3>3. QED
      BY <2>2, <3>2, Known DEF GoesOn, Starts, Binds, Tries, ConBecomes
  <2>3. req[r].pc \in Open =>
          req[r].con \in Console /\ D(r) \in Db /\ con[req[r].con].pc \in Listening
    BY DType
  <2>4. UNCHANGED oneDb
    BY <1>1, DatabaseStep
  <2>5. QED
    BY <2>1, <2>2, <2>3, <2>4 DEF D, DbOf
<1>4. QED
  BY <1>2, <1>3

(* Requests stay with a console that listens, and a deletion goes on only  *)
(* for a row found to be imported; built-in rows stay built in.            *)
LEMMA RequestsStep ==
  ASSUME TypeOK, RequestsServed, LibrarySound, [Next]_vars
  PROVE  RequestsServed'
<1> DEFINE Served(r) ==
      IF req[r].pc \in Open
      THEN /\ req[r].op \in Ops /\ req[r].skill \in Skill /\ req[r].con \in Console
           /\ con[req[r].con].pc \in Listening
           /\ req[r].pc = "lookup" => req[r].op # "restore"
           /\ req[r].pc = "find" => req[r].op = "override"
           /\ req[r].pc = "update" /\ req[r].op = "delete" => D(r) \in early \/ req[r].skill \notin BuiltIn
      ELSE req[r].con = None
<1>1. \A r \in Request : Served(r)
  BY DEF RequestsServed
<1>2. early \subseteq early' /\ UNCHANGED oneDb
  BY DatabaseStep
<1>3. ASSUME NEW c \in Console, Start(c) \/ Stop(c) \/ Boot(c), NEW r \in Request PROVE Served(r)'
  BY <1>1, <1>2, <1>3, RequestsFollow DEF Open
<1>4. ASSUME UNCHANGED con, NEW r \in Request, req'[r] = req[r] PROVE Served(r)'
  BY <1>1, <1>2, <1>4 DEF D, DbOf
<1>5. ASSUME UNCHANGED con, NEW r \in Request, req[r].pc \in Open, NEW pc, Turns(r, pc),
             pc = "find" => req[r].op = "override",
             pc = "update" /\ req[r].op = "delete" => D(r) \in early \/ req[r].skill \notin BuiltIn,
             pc # "lookup"
      PROVE  \A q \in Request : Served(q)'
  <2>1. Served(r)'
    <3>1. CASE pc \in Open
      <4>1. /\ req'[r].pc = pc /\ req'[r].op = req[r].op /\ req'[r].skill = req[r].skill
            /\ req'[r].con = req[r].con
        BY <1>5, <3>1 DEF Turns
      <4>2. D(r)' = D(r)
        BY <1>2, <1>5, <4>1 DEF D, DbOf
      <4>3. Served(r)
        BY <1>1
      <4>4. QED
        BY <1>2, <1>5, <3>1, <4>1, <4>2, <4>3
    <3>2. CASE pc \notin Open
      BY <1>5, <3>2 DEF Turns
    <3>3. QED
      BY <3>1, <3>2
  <2>2. \A q \in Request : q # r => req'[q] = req[q]
    BY <1>5 DEF Turns
  <2> HIDE DEF Served
  <2>3. QED
    BY <1>4, <1>5, <2>1, <2>2
<1>6. ASSUME NEW r \in Request, Arrive(r) PROVE \A q \in Request : Served(q)'
  <2>1. Served(r)'
    BY <1>6, ArriveEffect, Known DEF Open
  <2>2. UNCHANGED con /\ \A q \in Request : q # r => req'[q] = req[q]
    BY <1>6, ArriveEffect
  <2> HIDE DEF Served
  <2>3. QED
    BY <1>4, <2>1, <2>2
<1>7. ASSUME NEW r \in Request, RequestFails(r) PROVE \A q \in Request : Served(q)'
  <2>1. req[r].pc \in Open /\ Turns(r, "done") /\ UNCHANGED con
    BY <1>7, RequestFailsEffect, RequestFrame DEF Handle
  <2> HIDE DEF Served
  <2>2. QED
    BY <1>5, <2>1
<1>8. ASSUME NEW r \in Request, Lookup(r) PROVE \A q \in Request : Served(q)'
  <2>1. req[r].pc \in Open /\ req[r].pc = "lookup" /\ UNCHANGED con
    BY <1>8, LookupEffect, RequestFrame DEF Handle, Open
  <2>2. req[r].op \in Ops \ {"restore"} /\ D(r) \in Db /\ req[r].skill \in Skill
    BY <2>1, DType DEF RequestsServed
  <2>3. ASSUME req[r].op = "delete", Found(r) # None, Found(r).source = "imported"
        PROVE  D(r) \in early \/ req[r].skill \notin BuiltIn
    BY <2>2, <2>3 DEF LibrarySound, Found, Names, BuiltInThere
  <2>4. PICK pc : /\ Turns(r, pc) /\ pc # "lookup"
                  /\ pc = "find" => req[r].op = "override"
                  /\ pc = "update" /\ req[r].op = "delete" => D(r) \in early \/ req[r].skill \notin BuiltIn
    BY <1>8, <2>2, <2>3, LookupEffect
  <2> HIDE DEF Served
  <2>5. QED
    BY <1>5, <2>1, <2>4
<1>9. ASSUME NEW r \in Request, FindOverride(r) PROVE \A q \in Request : Served(q)'
  <2>1. req[r].pc \in Open /\ req[r].pc = "find" /\ UNCHANGED con
    BY <1>9, FindOverrideEffect, RequestFrame DEF Handle, Open
  <2>2. req[r].op = "override"
    BY <2>1 DEF RequestsServed
  <2>3. Turns(r, "insert") \/ Turns(r, "update")
    BY <1>9, FindOverrideEffect
  <2> HIDE DEF Served
  <2>4. QED
    BY <1>5, <2>1, <2>2, <2>3
<1>10. ASSUME NEW r \in Request,
              \/ InsertSkill(r) \/ UpdateSkill(r) \/ DeleteSkill(r)
              \/ InsertOverride(r) \/ UpdateOverride(r) \/ DeleteOverride(r)
       PROVE  \A q \in Request : Served(q)'
  <2>1. UNCHANGED con
    BY <1>10, RequestFrame DEF Handle
  <2>2. req[r].pc \in {"insert", "update"} /\ (Turns(r, "done") \/ Turns(r, "hollow"))
    BY <1>10, InsertSkillEffect, UpdateSkillEffect, DeleteSkillEffect,
       InsertOverrideEffect, UpdateOverrideEffect, DeleteOverrideEffect
  <2>3. req[r].pc \in Open
    BY <2>2 DEF Open
  <2> HIDE DEF Served
  <2>4. QED
    BY <1>5, <2>1, <2>2, <2>3
<1>11. ASSUME UNCHANGED vars PROVE \A q \in Request : Served(q)'
  <2>1. UNCHANGED <<con, req>>
    BY <1>11 DEF vars
  <2> HIDE DEF Served
  <2>2. QED
    BY <1>4, <2>1
<1>12. (\A q \in Request : Served(q)') => RequestsServed'
  BY DEF RequestsServed
<1> HIDE DEF Served
<1>13. QED
  BY <1>3, <1>6, <1>7, <1>8, <1>9, <1>10, <1>11, <1>12 DEF Next, Handle

(* A console's step deletes no row.                                        *)
LEMMA RowsStay ==
  ASSUME TypeOK, NEW c \in Console, Start(c) \/ Stop(c) \/ Boot(c), NEW d \in Db, NEW n \in Skill
  PROVE  /\ db'[d].skills[n] = None => db[d].skills[n] = None
         /\ db'[d].overrides[n] = db[d].overrides[n]
<1>1. CASE Create(c)
  <2>1. PICK schema : Schemed(DbOf(c), schema)
    BY <1>1, CreateEffect
  <2>2. QED
    BY <2>1 DEF Schemed
<1>2. CASE Seed(c)
  <2>1. PICK row \in Row : row = [source |-> "built-in", text |-> OnDisk]
    BY DEF Row
  <2>2. PICK skills :
          /\ \A m \in Skill : skills[m] = IF m \in BuiltIn THEN row ELSE db[DbOf(c)].skills[m]
          /\ Skilled(DbOf(c), skills)
    BY <1>2, <2>1, SeedEffect
  <2>3. row # None
    BY ConsoleAssumption
  <2>4. QED
    BY <2>2, <2>3 DEF Skilled
<1>3. CASE Start(c) \/ Stop(c) \/ Bind(c) \/ NextPort(c) \/ GiveUp(c) \/ Check(c) \/ CountSkills(c) \/ BootFails(c)
  <2>1. UNCHANGED db
    BY <1>3, StartEffect, StopEffect, BindEffect, NextPortEffect, GiveUpEffect, CheckEffect,
       CountSkillsEffect, BootFailsEffect DEF Leaves
  <2>2. QED
    BY <2>1
<1>4. QED
  BY <1>1, <1>2, <1>3 DEF Boot

(* A row goes away under a request only by a deletion, which crosses it.   *)
LEMMA CrossedStep ==
  ASSUME TypeOK, RequestsServed, CrossedKnown, [Next]_vars
  PROVE  CrossedKnown'
<1> DEFINE Fine(r) ==
      /\ req[r].pc = "update" =>
           /\ req[r].op = "edit" /\ Found(r) = None => r \in crossed
           /\ req[r].op = "override" /\ Override(r) = None => r \in crossed
      /\ req[r].pc = "hollow" => r \in crossed
<1>1. \A r \in Request : Fine(r)
  BY DEF CrossedKnown, AnsweredIsApplied
<1>2. UNCHANGED oneDb
  BY DatabaseStep
<1>3. ASSUME NEW c \in Console, Start(c) \/ Stop(c) \/ Boot(c), NEW r \in Request PROVE Fine(r)'
  <2>1. CASE req'[r].pc = "done"
    BY <2>1
  <2>2. CASE req'[r] = req[r] /\ (r \in crossed <=> r \in crossed')
    <3>1. CASE req[r].pc = "update"
      <4>1. req[r].pc \in Open /\ req'[r].pc \in Open
        BY <2>2, <3>1 DEF Open
      <4>2. D(r)' = D(r) /\ D(r) \in Db /\ req[r].skill \in Skill
        BY <1>3, <4>1, RequestsFollow, DType
      <4>3. /\ Found(r)' = None => Found(r) = None
            /\ Override(r)' = Override(r)
        BY <1>3, <2>2, <4>2, RowsStay DEF Found, Override
      <4>4. QED
        BY <1>1, <2>2, <3>1, <4>3
    <3>2. CASE req[r].pc # "update"
      BY <1>1, <2>2, <3>2
    <3>3. QED
      BY <3>1, <3>2
  <2>3. QED
    BY <1>3, <2>1, <2>2, RequestsFollow
<1>4. ASSUME UNCHANGED con, NEW r \in Request, req'[r] = req[r], r \in crossed => r \in crossed',
             req[r].pc = "update" =>
               /\ db'[D(r)].skills[req[r].skill] = None => Found(r) = None \/ (req[r].op = "edit" => r \in crossed')
               /\ db'[D(r)].overrides[req[r].skill] = None =>
                    Override(r) = None \/ (req[r].op = "override" => r \in crossed')
      PROVE  Fine(r)'
  <2>1. D(r)' = D(r)
    BY <1>2, <1>4 DEF D, DbOf
  <2>2. Found(r)' = db'[D(r)].skills[req[r].skill] /\ Override(r)' = db'[D(r)].overrides[req[r].skill]
    BY <1>4, <2>1 DEF Found, Override
  <2>3. Fine(r)
    BY <1>1
  <2>4. QED
    BY <1>4, <2>2, <2>3
<1>5. ASSUME NEW r \in Request, Arrive(r) PROVE \A q \in Request : Fine(q)'
  <2>1. /\ UNCHANGED <<con, db, crossed>> /\ \A q \in Request : q # r => req'[q] = req[q]
        /\ req'[r].pc = IF req'[r].op = "restore" THEN "update" ELSE "lookup"
    BY <1>5, ArriveEffect
  <2>2. Fine(r)'
    BY <2>1
  <2>3. ASSUME NEW q \in Request, q # r PROVE Fine(q)'
    BY <1>4, <2>1, <2>3 DEF Found, Override
  <2>4. QED
    BY <2>2, <2>3
<1>6. ASSUME NEW r \in Request, NEW pc, Turns(r, pc), UNCHANGED db, \A q \in crossed : q # r => q \in crossed',
             pc = "hollow" => r \in crossed',
             pc = "update" /\ req[r].op = "edit" => Found(r) # None,
             pc = "update" /\ req[r].op = "override" => Override(r) # None
      PROVE  \A q \in Request : Fine(q)'
  <2>1. UNCHANGED con /\ \A q \in Request : q # r => req'[q] = req[q]
    BY <1>6 DEF Turns
  <2>2. Fine(r)'
    <3>1. req'[r].pc = pc
      BY <1>6 DEF Turns
    <3>2. CASE pc = "update"
      <4>1. req'[r].op = req[r].op /\ req'[r].skill = req[r].skill /\ req'[r].con = req[r].con
        BY <1>6, <3>2 DEF Turns, Open
      <4>2. D(r)' = D(r)
        BY <1>2, <2>1, <4>1 DEF D, DbOf
      <4>3. Found(r)' = Found(r) /\ Override(r)' = Override(r)
        BY <1>6, <4>1, <4>2 DEF Found, Override
      <4>4. QED
        BY <1>6, <3>1, <3>2, <4>1, <4>3
    <3>3. CASE pc # "update"
      BY <1>6, <3>1, <3>3
    <3>4. QED
      BY <3>2, <3>3
  <2>3. ASSUME NEW q \in Request, q # r PROVE Fine(q)'
    BY <1>4, <1>6, <2>1, <2>3 DEF Found, Override
  <2>4. QED
    BY <2>2, <2>3
<1>7. ASSUME NEW r \in Request, RequestFails(r) PROVE \A q \in Request : Fine(q)'
  <2>1. Turns(r, "done") /\ UNCHANGED db /\ crossed' = crossed \ {r}
    BY <1>7, RequestFailsEffect
  <2> HIDE DEF Fine
  <2>2. QED
    BY <1>6, <2>1
<1>8. ASSUME NEW r \in Request, Lookup(r) PROVE \A q \in Request : Fine(q)'
  <2>1. req[r].op \in Ops \ {"restore"}
    BY <1>8, LookupEffect, DType DEF RequestsServed, Open
  <2>2. PICK pc : /\ Turns(r, pc) /\ pc # "hollow"
                  /\ pc = "update" /\ req[r].op = "edit" => Found(r) # None
                  /\ pc = "update" /\ req[r].op = "override" => Override(r) # None
    BY <1>8, <2>1, LookupEffect
  <2>3. UNCHANGED <<db, crossed>>
    BY <1>8, LookupEffect
  <2> HIDE DEF Fine
  <2>4. QED
    BY <1>6, <2>2, <2>3
<1>9. ASSUME NEW r \in Request, FindOverride(r) PROVE \A q \in Request : Fine(q)'
  <2>1. req[r].op = "override" /\ UNCHANGED <<db, crossed>>
    BY <1>9, FindOverrideEffect DEF RequestsServed, Open
  <2>2. \/ Turns(r, "insert")
        \/ Override(r) # None /\ Turns(r, "update")
    BY <1>9, FindOverrideEffect
  <2> HIDE DEF Fine
  <2>3. QED
    BY <1>6, <2>1, <2>2
<1>10. ASSUME NEW r \in Request, NEW n \in Skill, n = req[r].skill, Turns(r, "done"), crossed \ {r} \subseteq crossed',
              NEW skills, Skilled(D(r), skills), D(r) \in Db,
              \A m \in Skill : m # n => skills[m] = db[D(r)].skills[m],
              skills[n] = None => \A q \in Request : req[q].op = "edit" /\ req[q].pc = "update" /\ D(q) = D(r) /\ req[q].skill = n
                                                       => q \in crossed'
       PROVE  \A q \in Request : Fine(q)'
  <2>1. UNCHANGED con /\ req'[r].pc = "done" /\ \A q \in Request : q # r => req'[q] = req[q]
    BY <1>10 DEF Turns
  <2>2. Fine(r)'
    BY <2>1
  <2>3. ASSUME NEW q \in Request, q # r PROVE Fine(q)'
    <3>1. CASE req[q].pc = "update"
      <4>1. D(q) \in Db /\ req[q].skill \in Skill
        BY <3>1, DType DEF Open
      <4>2. db'[D(q)].overrides = db[D(q)].overrides
        BY <1>10, <4>1 DEF Skilled
      <4>3. db'[D(q)].skills[req[q].skill] = None => Found(q) = None \/ (req[q].op = "edit" => q \in crossed')
        BY <1>10, <3>1, <4>1 DEF Skilled, Found
      <4>4. q \in crossed => q \in crossed'
        BY <1>10, <2>3
      <4>5. db'[D(q)].overrides[req[q].skill] = Override(q)
        BY <4>2 DEF Override
      <4> HIDE DEF Fine
      <4>6. QED
        BY <1>4, <2>1, <2>3, <4>3, <4>4, <4>5
    <3>2. CASE req[q].pc # "update"
      BY <1>1, <1>10, <2>1, <2>3, <3>2
    <3>3. QED
      BY <3>1, <3>2
  <2>4. QED
    BY <2>2, <2>3
<1>11. ASSUME NEW r \in Request, NEW n \in Skill, n = req[r].skill, Turns(r, "done"), crossed \ {r} \subseteq crossed',
              NEW overrides, Overridden(D(r), overrides), D(r) \in Db,
              \A m \in Skill : m # n => overrides[m] = db[D(r)].overrides[m],
              overrides[n] = None => \A q \in Request : req[q].op = "override" /\ req[q].pc = "update" /\ D(q) = D(r) /\ req[q].skill = n
                                                          => q \in crossed'
       PROVE  \A q \in Request : Fine(q)'
  <2>1. UNCHANGED con /\ req'[r].pc = "done" /\ \A q \in Request : q # r => req'[q] = req[q]
    BY <1>11 DEF Turns
  <2>2. Fine(r)'
    BY <2>1
  <2>3. ASSUME NEW q \in Request, q # r PROVE Fine(q)'
    <3>1. CASE req[q].pc = "update"
      <4>1. D(q) \in Db /\ req[q].skill \in Skill
        BY <3>1, DType DEF Open
      <4>2. db'[D(q)].skills = db[D(q)].skills
        BY <1>11, <4>1 DEF Overridden
      <4>3. db'[D(q)].overrides[req[q].skill] = None =>
              Override(q) = None \/ (req[q].op = "override" => q \in crossed')
        BY <1>11, <3>1, <4>1 DEF Overridden, Override
      <4>4. q \in crossed => q \in crossed'
        BY <1>11, <2>3
      <4>5. db'[D(q)].skills[req[q].skill] = Found(q)
        BY <4>2 DEF Found
      <4> HIDE DEF Fine
      <4>6. QED
        BY <1>4, <2>1, <2>3, <4>3, <4>4, <4>5
    <3>2. CASE req[q].pc # "update"
      BY <1>1, <1>11, <2>1, <2>3, <3>2
    <3>3. QED
      BY <3>1, <3>2
  <2>4. QED
    BY <2>2, <2>3
<1>12. ASSUME NEW r \in Request, req[r].pc \in {"insert", "update"}
       PROVE  /\ D(r) \in Db /\ req[r].skill \in Skill
              /\ db[D(r)].skills \in [Skill -> Row \cup {None}]
              /\ db[D(r)].overrides \in [Skill -> Request \cup {None}]
  BY <1>12, DType DEF Open, TypeOK, Database
<1>13. ASSUME NEW r \in Request, InsertSkill(r) PROVE \A q \in Request : Fine(q)'
  <2>1. PICK row \in Row : row = [source |-> "imported", text |-> r]
    BY DEF Row
  <2>2. row # None
    BY ConsoleAssumption
  <2>3. PICK skills : skills = [db[D(r)].skills EXCEPT ![req[r].skill] = row]
    OBVIOUS
  <2>4. Skilled(D(r), skills) /\ Turns(r, "done") /\ UNCHANGED crossed /\ req[r].pc = "insert"
    BY <1>13, <2>1, <2>3, InsertSkillEffect
  <2>5. /\ D(r) \in Db /\ req[r].skill \in Skill /\ skills[req[r].skill] = row
        /\ \A m \in Skill : m # req[r].skill => skills[m] = db[D(r)].skills[m]
    BY <1>12, <2>3, <2>4
  <2> HIDE DEF Fine
  <2>6. QED
    BY <1>10, <2>2, <2>4, <2>5
<1>14. ASSUME NEW r \in Request, UpdateSkill(r) PROVE \A q \in Request : Fine(q)'
  <2>1. req[r].pc = "update" /\ req[r].op = "edit"
    BY <1>14, UpdateSkillEffect
  <2>2. CASE Found(r) = None /\ Turns(r, "hollow") /\ UNCHANGED <<db, crossed>>
    <3>1. r \in crossed
      BY <1>1, <2>1, <2>2
    <3> HIDE DEF Fine
    <3>2. QED
      BY <1>6, <2>2, <3>1
  <2>3. CASE ~(Found(r) = None /\ Turns(r, "hollow") /\ UNCHANGED <<db, crossed>>)
    <3>1. PICK row \in Row : Skilled(D(r), [db[D(r)].skills EXCEPT ![req[r].skill] = row])
      BY <1>14, <2>3, UpdateSkillEffect
    <3>2. Turns(r, "done") /\ crossed' = crossed \ {r}
      BY <1>14, <2>3, UpdateSkillEffect
    <3>3. PICK skills : skills = [db[D(r)].skills EXCEPT ![req[r].skill] = row]
      OBVIOUS
    <3>4. /\ D(r) \in Db /\ req[r].skill \in Skill /\ skills[req[r].skill] = row
          /\ \A m \in Skill : m # req[r].skill => skills[m] = db[D(r)].skills[m]
      BY <1>12, <2>1, <3>3
    <3>5. row # None /\ Skilled(D(r), skills)
      BY <3>1, <3>3, ConsoleAssumption
    <3> HIDE DEF Fine
    <3>6. QED
      BY <1>10, <3>2, <3>4, <3>5
  <2>4. QED
    BY <2>2, <2>3
<1>15. ASSUME NEW r \in Request, DeleteSkill(r) PROVE \A q \in Request : Fine(q)'
  <2>1. PICK skills : skills = [db[D(r)].skills EXCEPT ![req[r].skill] = None]
    OBVIOUS
  <2>2. Skilled(D(r), skills) /\ Turns(r, "done") /\ Crossed("edit", r) /\ req[r].pc = "update"
    BY <1>15, <2>1, DeleteSkillEffect
  <2>3. /\ D(r) \in Db /\ req[r].skill \in Skill
        /\ \A m \in Skill : m # req[r].skill => skills[m] = db[D(r)].skills[m]
    BY <1>12, <2>1, <2>2
  <2>4. /\ crossed \subseteq crossed'
        /\ \A q \in Request : req[q].op = "edit" /\ req[q].pc = "update" /\ D(q) = D(r) /\ req[q].skill = req[r].skill
                                => q \in crossed'
    BY <2>2 DEF Crossed
  <2> HIDE DEF Fine
  <2>5. QED
    BY <1>10, <2>2, <2>3, <2>4
<1>16. ASSUME NEW r \in Request, InsertOverride(r) PROVE \A q \in Request : Fine(q)'
  <2>1. PICK overrides : overrides = [db[D(r)].overrides EXCEPT ![req[r].skill] = r]
    OBVIOUS
  <2>2. Overridden(D(r), overrides) /\ Turns(r, "done") /\ UNCHANGED crossed /\ req[r].pc = "insert"
    BY <1>16, <2>1, InsertOverrideEffect
  <2>3. /\ D(r) \in Db /\ req[r].skill \in Skill /\ overrides[req[r].skill] = r
        /\ \A m \in Skill : m # req[r].skill => overrides[m] = db[D(r)].overrides[m]
    BY <1>12, <2>1, <2>2
  <2>4. r # None
    BY ConsoleAssumption
  <2> HIDE DEF Fine
  <2>5. QED
    BY <1>11, <2>2, <2>3, <2>4
<1>17. ASSUME NEW r \in Request, UpdateOverride(r) PROVE \A q \in Request : Fine(q)'
  <2>1. req[r].pc = "update" /\ req[r].op = "override"
    BY <1>17, UpdateOverrideEffect
  <2>2. CASE Override(r) = None /\ Turns(r, "hollow") /\ UNCHANGED <<db, crossed>>
    <3>1. r \in crossed
      BY <1>1, <2>1, <2>2
    <3> HIDE DEF Fine
    <3>2. QED
      BY <1>6, <2>2, <3>1
  <2>3. CASE ~(Override(r) = None /\ Turns(r, "hollow") /\ UNCHANGED <<db, crossed>>)
    <3>1. PICK overrides : overrides = [db[D(r)].overrides EXCEPT ![req[r].skill] = r]
      OBVIOUS
    <3>2. Turns(r, "done") /\ crossed' = crossed \ {r} /\ Overridden(D(r), overrides)
      BY <1>17, <2>3, <3>1, UpdateOverrideEffect
    <3>3. /\ D(r) \in Db /\ req[r].skill \in Skill /\ overrides[req[r].skill] = r
          /\ \A m \in Skill : m # req[r].skill => overrides[m] = db[D(r)].overrides[m]
      BY <1>12, <2>1, <3>1
    <3>4. r # None
      BY ConsoleAssumption
    <3> HIDE DEF Fine
    <3>5. QED
      BY <1>11, <3>2, <3>3, <3>4
  <2>4. QED
    BY <2>2, <2>3
<1>18. ASSUME NEW r \in Request, DeleteOverride(r) PROVE \A q \in Request : Fine(q)'
  <2>1. req[r].pc = "update" /\ Turns(r, "done")
    BY <1>18, DeleteOverrideEffect
  <2>2. CASE UNCHANGED <<db, crossed>>
    <3> HIDE DEF Fine
    <3>1. QED
      BY <1>6, <2>1, <2>2
  <2>3. CASE ~UNCHANGED <<db, crossed>>
    <3>1. PICK overrides : overrides = [db[D(r)].overrides EXCEPT ![req[r].skill] = None]
      OBVIOUS
    <3>2. Crossed("override", r) /\ Overridden(D(r), overrides)
      BY <1>18, <2>3, <3>1, DeleteOverrideEffect
    <3>3. /\ D(r) \in Db /\ req[r].skill \in Skill
          /\ \A m \in Skill : m # req[r].skill => overrides[m] = db[D(r)].overrides[m]
      BY <1>12, <2>1, <3>1
    <3>4. /\ crossed \subseteq crossed'
          /\ \A q \in Request : req[q].op = "override" /\ req[q].pc = "update" /\ D(q) = D(r) /\ req[q].skill = req[r].skill
                                  => q \in crossed'
      BY <3>2 DEF Crossed
    <3> HIDE DEF Fine
    <3>5. QED
      BY <1>11, <2>1, <3>2, <3>3, <3>4
  <2>4. QED
    BY <2>2, <2>3
<1>19. ASSUME UNCHANGED vars PROVE \A q \in Request : Fine(q)'
  BY <1>1, <1>19 DEF vars, history, Found, Override, D, DbOf
<1>20. (\A q \in Request : Fine(q)') => CrossedKnown'
  BY DEF CrossedKnown, AnsweredIsApplied
<1> HIDE DEF Fine
<1>21. QED
  BY <1>3, <1>5, <1>7, <1>8, <1>9, <1>13, <1>14, <1>15, <1>16, <1>17, <1>18, <1>19, <1>20
     DEF Next, Handle

-----------------------------------------------------------------------------
(* A request changes no schema, and of the libraries no import was ahead   *)
(* of none that is empty.                                                  *)
LEMMA EmptyStays ==
  ASSUME TypeOK, RequestsServed, NEW r \in Request, Arrive(r) \/ Handle(r), NEW d \in Db, d \notin early'
  PROVE  db'[d].schema = db[d].schema /\ (Names(d) = {} => Names(d)' = {})
<1>1. CASE InsertSkill(r)
  <2>1. /\ Skilled(D(r), [db[D(r)].skills EXCEPT ![req[r].skill] = [source |-> "imported", text |-> r]])
        /\ d = D(r) => Names(d) # {}
    BY <1>1, InsertSkillEffect
  <2>2. QED
    BY <2>1 DEF Skilled, Names
<1>2. CASE UpdateSkill(r)
  <2>1. CASE UNCHANGED db
    BY <2>1 DEF Names
  <2>2. CASE ~UNCHANGED db
    <3>1. PICK row : Skilled(D(r), [db[D(r)].skills EXCEPT ![req[r].skill] = row])
      BY <1>2, <2>2, UpdateSkillEffect
    <3>2. db[D(r)].skills[req[r].skill] # None /\ req[r].skill \in Skill
      BY <1>2, <2>2, UpdateSkillEffect, DType DEF Found, Open
    <3>3. QED
      BY <3>1, <3>2 DEF Skilled, Names
  <2>3. QED
    BY <2>1, <2>2
<1>3. CASE DeleteSkill(r)
  <2>1. /\ Skilled(D(r), [db[D(r)].skills EXCEPT ![req[r].skill] = None])
        /\ D(r) \in Db /\ req[r].skill \in Skill
    BY <1>3, DeleteSkillEffect, DType DEF Open
  <2>2. db[D(r)].skills \in [Skill -> Row \cup {None}]
    BY <2>1 DEF TypeOK, Database
  <2>3. QED
    BY <2>1, <2>2 DEF Skilled, Names
<1>4. CASE InsertOverride(r) \/ UpdateOverride(r) \/ DeleteOverride(r)
  <2>1. UNCHANGED db \/ \E overrides : Overridden(D(r), overrides)
    BY <1>4, InsertOverrideEffect, UpdateOverrideEffect, DeleteOverrideEffect
  <2>2. QED
    BY <2>1 DEF Overridden, Names
<1>5. CASE Arrive(r) \/ RequestFails(r) \/ Lookup(r) \/ FindOverride(r)
  <2>1. UNCHANGED db
    BY <1>5, ArriveEffect, RequestFailsEffect, LookupEffect, FindOverrideEffect
  <2>2. QED
    BY <2>1 DEF Names
<1>6. QED
  BY <1>1, <1>2, <1>3, <1>4, <1>5 DEF Handle

(* Consoles that race for the ports do not all lose: whoever binds one,    *)
(* creates a table or seeds is the hope of a port; a holder that stops     *)
(* leaves its port to itself; and who has no port to try left has found    *)
(* them taken.                                                             *)
LEMMA HopeStep ==
  ASSUME IInv, HopeOrEarly, [Next]_vars
  PROVE  HopeOrEarly'
<1>1. SUFFICES ASSUME early = {}, early' = {}, Hope PROVE Hope'
  <2>1. early \subseteq early'
    BY DatabaseStep DEF IInv
  <2>2. QED
    BY <1>1, <2>1 DEF HopeOrEarly
<1> USE DEF IInv
<1>2. PICK p \in Port \ Taken : IF listener[p] = None THEN \E c \in Console : Reaches(c, p)
                                ELSE ~Doomed(listener[p])
  BY <1>1 DEF Hope
<1>3. /\ UNCHANGED <<PORT_AUTO, oneDb>>
      /\ p \in Nat /\ p <= MaxPort /\ MaxPort \in Nat /\ MaxTries \in Nat
  BY DatabaseStep, ConsoleAssumption DEF Port
<1>4. ASSUME NEW c \in Console, NEW q \in Port, Reaches(c, q), con'[c] = con[c] PROVE Reaches(c, q)'
  BY <1>3, <1>4 DEF Reaches
<1>5. ASSUME NEW c \in Console, ~Doomed(c), con'[c] = con[c], UNCHANGED db PROVE ~Doomed(c)'
  BY <1>3, <1>5 DEF Doomed, DbOf, Names
<1>6. ASSUME NEW c \in Console, listener'[p] = None, Reaches(c, p)' PROVE Hope'
  BY <1>6 DEF Hope
<1>7. ASSUME NEW q \in Port \ Taken, NEW c \in Console, listener'[q] = c, ~Doomed(c)' PROVE Hope'
  <2>1. c # None
    BY ConsoleAssumption
  <2>2. ~Doomed(listener[q])'
    BY <1>7 DEF Doomed, DbOf, Names
  <2>3. QED
    BY <1>7, <2>1, <2>2 DEF Hope
<1>8. /\ listener[p] # None => /\ listener[p] \in Console /\ con[listener[p]].pc \in Listening
                               /\ con[listener[p]].port = p
      /\ \A c \in Console : con[c].pc \in Listening =>
           con[c].port \in Port \ Taken /\ listener[con[c].port] = c
  BY DbOfType DEF PortsHeld
<1>9. ASSUME NEW c \in Console, UNCHANGED <<listener, db>>, \A x \in Console : x # c => con'[x] = con[x],
             Reaches(c, p) /\ listener[p] = None => Reaches(c, p)',
             listener[p] = c => ~Doomed(c)'
      PROVE  Hope'
  <2>1. CASE listener[p] = None
    <3>1. PICK x \in Console : Reaches(x, p)
      BY <1>2, <2>1
    <3>2. Reaches(x, p)'
      BY <1>4, <1>9, <2>1, <3>1
    <3>3. QED
      BY <1>6, <1>9, <2>1, <3>2
  <2>2. CASE listener[p] # None
    <3>1. PICK x \in Console : x = listener[p]
      BY <1>8, <2>2
    <3>2. ~Doomed(x)
      BY <1>2, <2>2, <3>1
    <3>3. ~Doomed(x)'
      BY <1>5, <1>9, <3>1, <3>2
    <3>4. listener'[p] = x
      BY <1>9, <3>1
    <3>5. QED
      BY <1>7, <3>3, <3>4
  <2>3. QED
    BY <2>1, <2>2
<1>10. ASSUME NEW c \in Console, Start(c) PROVE Hope'
  <2>1. con[c].pc \in {"off", "exited"} /\ ConBecomes(c, "listen", con[c].port, MaxTries, con[c].at)
        /\ UNCHANGED <<listener, db>>
    BY <1>10, StartEffect
  <2>2. con[c].port = PORT[c]
    BY <2>1 DEF PortsTried
  <2>3. Reaches(c, p) => Reaches(c, p)'
    BY <1>3, <2>1, <2>2 DEF Reaches, ConBecomes
  <2>4. listener[p] # c
    BY <1>8, <2>1, ConsoleAssumption DEF Listening, Booting
  <2>5. QED
    BY <1>9, <2>1, <2>3, <2>4 DEF ConBecomes
<1>11. ASSUME NEW c \in Console, Stop(c) PROVE Hope'
  <2>1. con[c].pc \notin {"off", "exited"} /\ Leaves(c, "off")
    BY <1>11, StopEffect
  <2>2. /\ con'[c].pc = "off" /\ \A x \in Console : x # c => con'[x] = con[x]
        /\ UNCHANGED db /\ listener'[p] = IF listener[p] = c THEN None ELSE listener[p]
    BY <2>1 DEF Leaves, ConBecomes
  <2>3. /\ PORT[c] <= con[c].port /\ con[c].port + con[c].tries <= PORT[c] + MaxTries
        /\ ~PORT_AUTO => con[c].port = PORT[c]
        /\ PORT[c] \in Nat /\ con[c].port \in Nat /\ con[c].tries \in Nat
    BY DbOfType DEF PortsTried
  <2>4. CASE listener[p] = c
    <3>1. con[c].port = p /\ listener'[p] = None
      BY <1>8, <2>2, <2>4, ConsoleAssumption
    <3>2. Reaches(c, p)'
      BY <1>3, <2>2, <2>3, <3>1 DEF Reaches
    <3>3. QED
      BY <1>6, <3>1, <3>2
  <2>5. CASE listener[p] # c /\ listener[p] # None
    <3>1. PICK x \in Console : x = listener[p] /\ x # c
      BY <1>8, <2>5
    <3>2. ~Doomed(x)' /\ listener'[p] = x
      BY <1>2, <1>5, <2>2, <2>5, <3>1
    <3>3. QED
      BY <1>7, <3>2
  <2>6. CASE listener[p] = None
    <3>1. PICK x \in Console : Reaches(x, p)
      BY <1>2, <2>6
    <3>2. listener'[p] = None
      BY <2>2, <2>6
    <3>3. CASE x = c
      <4>1. /\ con[c].port <= p /\ p <= con[c].port + con[c].tries /\ (PORT_AUTO \/ p = con[c].port)
        BY <2>1, <3>1, <3>3 DEF Reaches
      <4>2. PORT[c] <= p /\ p <= PORT[c] + MaxTries /\ (PORT_AUTO \/ p = PORT[c])
        BY <1>3, <2>3, <4>1
      <4>3. Reaches(c, p)'
        BY <1>3, <2>2, <4>2 DEF Reaches
      <4>4. QED
        BY <1>6, <3>2, <4>3
    <3>4. CASE x # c
      BY <1>4, <1>6, <2>2, <3>1, <3>2, <3>4
    <3>5. QED
      BY <3>3, <3>4
  <2>7. QED
    BY <2>4, <2>5, <2>6
<1>12. ASSUME NEW c \in Console, Bind(c) PROVE Hope'
  <2>1. /\ Free(con[c].port) /\ ConBecomes(c, "check", con[c].port, 0, 1) /\ listener'[con[c].port] = c
        /\ con[c].port \in Port
    BY <1>12, BindEffect, DbOfType
  <2>2. ~Doomed(c)'
    BY <2>1 DEF Doomed, ConBecomes
  <2>3. QED
    BY <1>7, <2>1, <2>2 DEF Free
<1>13. ASSUME NEW c \in Console, NextPort(c) PROVE Hope'
  <2>1. /\ con[c].pc = "listen" /\ ~Free(con[c].port) /\ PORT_AUTO /\ UNCHANGED <<listener, db>>
        /\ ConBecomes(c, "listen", con[c].port + 1, con[c].tries - 1, con[c].at)
        /\ con[c].port \in Nat /\ con[c].tries \in Nat
    BY <1>13, NextPortEffect, DbOfType
  <2>2. ASSUME Reaches(c, p), listener[p] = None PROVE Reaches(c, p)'
    <3>1. con[c].port # p
      BY <2>1, <2>2 DEF Free
    <3>2. con[c].port <= p /\ p <= con[c].port + con[c].tries
      BY <2>1, <2>2 DEF Reaches
    <3>3. con[c].port + 1 <= p /\ p <= (con[c].port + 1) + (con[c].tries - 1)
      BY <1>3, <2>1, <3>1, <3>2
    <3>4. con'[c].pc = "listen" /\ con'[c].port = con[c].port + 1 /\ con'[c].tries = con[c].tries - 1
      BY <2>1 DEF ConBecomes
    <3>5. QED
      BY <1>3, <2>1, <3>3, <3>4 DEF Reaches
  <2>3. listener[p] # c
    BY <1>8, <2>1, ConsoleAssumption DEF Listening, Booting
  <2>4. QED
    BY <1>9, <2>1, <2>2, <2>3 DEF ConBecomes
<1>14. ASSUME NEW c \in Console, GiveUp(c) \/ BootFails(c) PROVE Hope'
  <2>1. Leaves(c, "exited") /\ con[c].pc \in {"listen", "create", "seed"}
    BY <1>14, GiveUpEffect, BootFailsEffect
  <2>2. ASSUME listener[p] = None PROVE ~Reaches(c, p)
    <3>1. SUFFICES ASSUME Reaches(c, p) PROVE FALSE
      OBVIOUS
    <3>2. con[c].pc = "listen"
      BY <2>1, <3>1 DEF Reaches
    <3>3. ~BootFails(c)
      BY <3>2, BootFailsEffect
    <3>4. /\ ~Free(con[c].port) /\ (PORT_AUTO => con[c].tries = 0 \/ con[c].port = MaxPort)
          /\ con[c].port \in Nat /\ con[c].tries \in Nat
      BY <1>14, <3>3, GiveUpEffect, DbOfType
    <3>5. con[c].port # p
      BY <2>2, <3>4 DEF Free
    <3>6. con[c].port <= p /\ p <= con[c].port + con[c].tries /\ PORT_AUTO
      BY <3>1, <3>2, <3>5 DEF Reaches
    <3>7. QED
      BY <1>3, <3>4, <3>5, <3>6
  <2>3. ASSUME listener[p] = c PROVE Doomed(c)
    <3>1. con[c].pc # "listen"
      BY <1>8, <2>3, ConsoleAssumption DEF Listening, Booting
    <3>2. QED
      BY <1>14, <3>1, GiveUpEffect, BootFailsEffect
  <2>4. listener[p] # c
    BY <1>2, <2>3, ConsoleAssumption
  <2>5. /\ \A x \in Console : x # c => con'[x] = con[x]
        /\ UNCHANGED db /\ listener'[p] = listener[p]
    BY <2>1, <2>4 DEF Leaves, ConBecomes
  <2>6. CASE listener[p] = None
    <3>1. PICK x \in Console : Reaches(x, p) /\ x # c
      BY <1>2, <2>2, <2>6
    <3>2. QED
      BY <1>4, <1>6, <2>5, <2>6, <3>1
  <2>7. CASE listener[p] # None
    <3>1. PICK x \in Console : x = listener[p] /\ x # c
      BY <1>8, <2>4, <2>7
    <3>2. ~Doomed(x)' /\ listener'[p] = x
      BY <1>2, <1>5, <2>5, <2>7, <3>1
    <3>3. QED
      BY <1>7, <3>2
  <2>8. QED
    BY <2>6, <2>7
<1>15. ASSUME NEW c \in Console, Check(c) PROVE Hope'
  <2>1. con[c].pc = "check" /\ UNCHANGED <<listener, db>>
    BY <1>15, CheckEffect
  <2>2. ~Reaches(c, p)
    BY <2>1 DEF Reaches
  <2>3. ~Doomed(c)'
    <3>1. CASE Advances(c)
      BY <3>1 DEF Advances, ConBecomes, Doomed
    <3>2. CASE ~Advances(c)
      <4>1. /\ Schema[con[c].at] \notin db[DbOf(c)].schema
            /\ con'[c].pc = "create" /\ con'[c].at = con[c].at /\ con'[c].port = con[c].port
        BY <1>15, <3>2, CheckEffect DEF ConBecomes
      <4>2. DbOf(c)' = DbOf(c)
        BY <1>3, <4>1, DbKept
      <4>3. QED
        BY <2>1, <4>1, <4>2 DEF Doomed
    <3>3. QED
      BY <3>1, <3>2
  <2>4. \A x \in Console : x # c => con'[x] = con[x]
    BY <1>15, CheckEffect DEF Advances, ConBecomes
  <2>5. QED
    BY <1>9, <2>1, <2>2, <2>3, <2>4
<1>16. ASSUME NEW c \in Console, Create(c) PROVE Hope'
  <2>1. con[c].pc = "create" /\ Advances(c) /\ UNCHANGED listener
    BY <1>16, CreateEffect
  <2>2. ~Doomed(c)'
    BY <2>1 DEF Advances, ConBecomes, Doomed
  <2>3. con[c].port \in Port \ Taken /\ listener'[con[c].port] = c
    BY <1>8, <2>1, Known
  <2>4. QED
    BY <1>7, <2>2, <2>3
<1>17. ASSUME NEW c \in Console, CountSkills(c) PROVE Hope'
  <2>1. con[c].pc = "count" /\ UNCHANGED <<listener, db>>
    BY <1>17, CountSkillsEffect
  <2>2. ~Reaches(c, p)
    BY <2>1 DEF Reaches
  <2>3. ~Doomed(c)'
    <3>1. /\ con'[c].port = con[c].port
          /\ con'[c].pc = "serving" \/ (con'[c].pc = "seed" /\ Names(DbOf(c)) = {})
      BY <1>17, CountSkillsEffect DEF ConBecomes
    <3>2. DbOf(c)' = DbOf(c)
      BY <1>3, <3>1, DbKept
    <3>3. QED
      BY <2>1, <3>1, <3>2 DEF Doomed, Names
  <2>4. \A x \in Console : x # c => con'[x] = con[x]
    BY <1>17, CountSkillsEffect DEF ConBecomes
  <2>5. QED
    BY <1>9, <2>1, <2>2, <2>3, <2>4
<1>18. ASSUME NEW c \in Console, Seed(c) PROVE Hope'
  <2>1. con[c].pc = "seed" /\ ConBecomes(c, "serving", con[c].port, con[c].tries, 0) /\ UNCHANGED listener
    BY <1>18, SeedEffect
  <2>2. ~Doomed(c)'
    BY <2>1 DEF ConBecomes, Doomed
  <2>3. con[c].port \in Port \ Taken /\ listener'[con[c].port] = c
    BY <1>8, <2>1, Known
  <2>4. QED
    BY <1>7, <2>2, <2>3
<1>19. ASSUME NEW r \in Request, Arrive(r) \/ Handle(r) PROVE Hope'
  <2>1. UNCHANGED <<listener, con>>
    BY <1>19, RequestFrame
  <2>2. CASE listener[p] = None
    BY <1>2, <1>4, <1>6, <2>1, <2>2
  <2>3. CASE listener[p] # None
    <3>1. PICK x \in Console : x = listener[p]
      BY <1>8, <2>3
    <3>2. PICK d \in Db : d = DbOf(x) /\ DbOf(x)' = d
      BY <1>3, <2>1, DbOfType, DbKept
    <3>3. db'[d].schema = db[d].schema /\ (Names(d) = {} => Names(d)' = {})
      BY <1>1, <1>19, EmptyStays
    <3>4. Names(d) \cap BuiltIn = {} => Names(d) = {}
      BY <1>1, ConsoleAssumption DEF LibrarySound, BuiltInThere, Names
    <3>5. ~Doomed(x)
      BY <1>2, <2>3, <3>1
    <3>6. ~Doomed(x)'
      BY <2>1, <3>2, <3>3, <3>4, <3>5 DEF Doomed, Names
    <3>7. QED
      BY <1>7, <2>1, <3>1, <3>6
  <2>4. QED
    BY <2>2, <2>3
<1>20. CASE UNCHANGED vars
  <2>1. UNCHANGED <<PORT_AUTO, oneDb, listener, con, db>>
    BY <1>20 DEF vars
  <2>2. QED
    BY <1>1, <2>1 DEF Hope, Reaches, Doomed, DbOf, Names
<1>21. QED
  BY <1>10, <1>11, <1>12, <1>13, <1>14, <1>15, <1>16, <1>17, <1>18, <1>19, <1>20 DEF Next, Boot

-----------------------------------------------------------------------------
(* The invariant holds at first, ...                                       *)
LEMMA InitIInv == Init => IInv
<1> SUFFICES ASSUME Init PROVE IInv
  OBVIOUS
<1>1. PICK off : off = [c \in Console |-> [pc |-> "off", port |-> PORT[c], tries |-> 0, at |-> 0]]
  OBVIOUS
<1>2. con = off
  BY <1>1 DEF Init, Stopped
<1>3. /\ con \in [Console -> ConType]
      /\ \A c \in Console : con[c].pc = "off" /\ con[c].port = PORT[c] /\ con[c].tries = 0
  BY <1>1, <1>2, ConsoleAssumption, SchemaShape, Known DEF ConType
<1>4. /\ req \in [Request -> ReqType]
      /\ \A r \in Request : req[r].pc = "new" /\ req[r].con = None
  <2>1. PICK new : new = [pc |-> "new", op |-> None, skill |-> None, con |-> None]
    OBVIOUS
  <2>2. new \in ReqType /\ new.pc = "new" /\ new.con = None
    BY <2>1, Known DEF ReqType
  <2>3. req = [r \in Request |-> new]
    BY <2>1 DEF Init, Closed
  <2>4. QED
    BY <2>2, <2>3
<1>5. PICK row \in Row : row = [source |-> "built-in", text |-> OnDisk]
  BY DEF Row
<1>6. row # None /\ row.source = "built-in"
  BY <1>5, ConsoleAssumption
<1>7. Seeded = [n \in Skill |-> IF n \in BuiltIn THEN row ELSE None]
  BY <1>5 DEF Seeded
<1>8. PICK none : none = [n \in Skill |-> None]
  OBVIOUS
<1>9. PICK d : (d = Fresh \/ d = Legacy) /\ db = [i \in Db |-> d]
  BY DEF Init
<1>10. d \in Database /\ (d.skills = none \/ d.skills = Seeded)
  <2>1. Seeded \in [Skill -> Row \cup {None}] /\ none \in [Skill -> Row \cup {None}]
        /\ none \in [Skill -> Request \cup {None}]
    BY <1>7, <1>8
  <2>2. Fresh = [schema |-> {}, skills |-> none, overrides |-> none]
    BY <1>8 DEF Fresh
  <2>3. Fresh \in Database /\ Fresh.skills = none
    BY <2>1, <2>2 DEF Database
  <2>4. PICK schema \in SUBSET Objects : schema = Objects \ {"parent_session_id"}
    OBVIOUS
  <2>5. PICK seeded : seeded = Seeded
    OBVIOUS
  <2>6. Legacy = [[Fresh EXCEPT !.schema = schema] EXCEPT !.skills = seeded]
    BY <2>4, <2>5 DEF Legacy
  <2>7. Legacy = [schema |-> schema, skills |-> seeded, overrides |-> none]
    BY <2>2, <2>6
  <2>8. Legacy \in Database /\ Legacy.skills = Seeded
    BY <2>1, <2>5, <2>7 DEF Database
  <2>9. QED
    BY <1>9, <2>3, <2>8
<1>11. TypeOK
  BY <1>3, <1>4, <1>9, <1>10 DEF TypeOK, Init
<1>12. PortsHeld /\ PortsTried
  BY <1>3, ConsoleAssumption DEF PortsHeld, PortsTried, Init, Listening, Booting, Port
<1>13. SchemaSeen
  BY <1>3 DEF SchemaSeen
<1>14. LibrarySound
  <2>1. ASSUME NEW i \in Db
        PROVE  /\ Names(i) = {} \/ BuiltInThere(i)
               /\ \A n \in Skill \ BuiltIn : db[i].skills[n] # None => db[i].skills[n].source = "imported"
    <3>1. db[i].skills = none \/ db[i].skills = Seeded
      BY <1>9, <1>10
    <3>2. CASE db[i].skills = none
      BY <1>8, <3>2 DEF Names
    <3>3. CASE db[i].skills = Seeded
      BY <1>6, <1>7, <3>3, ConsoleAssumption DEF BuiltInThere
    <3>4. QED
      BY <3>1, <3>2, <3>3
  <2>2. QED
    BY <1>3, <2>1 DEF LibrarySound
<1>15. RequestsServed /\ CrossedKnown
  BY <1>4, Known DEF RequestsServed, CrossedKnown, AnsweredIsApplied, Open
<1>16. QED
  BY <1>11, <1>12, <1>13, <1>14, <1>15 DEF IInv

(* ... and every step of the system keeps it.                              *)
LEMMA StepIInv == IInv /\ [Next]_vars => IInv'
<1> SUFFICES ASSUME IInv, [Next]_vars PROVE IInv'
  OBVIOUS
<1>1. TypeOK /\ PortsHeld /\ PortsTried /\ SchemaSeen /\ LibrarySound /\ RequestsServed /\ CrossedKnown
  BY DEF IInv
<1>2. TypeOK' /\ PortsHeld' /\ PortsTried' /\ SchemaSeen'
  BY <1>1, TypeStep, PortsStep, TriedStep, SchemaStep
<1>3. LibrarySound' /\ RequestsServed' /\ CrossedKnown'
  BY <1>1, LibraryStep, RequestsStep, CrossedStep
<1>4. QED
  BY <1>2, <1>3 DEF IInv

(* The inductive invariant of the consoles holds in every state.           *)
THEOREM Invariance == Spec => []IInv
<1>1. QED
  BY InitIInv, StepIInv, PTL DEF Spec

(* Consoles, databases and requests have their types in every state, and a *)
(* boot is at a table it has to look for.                                  *)
THEOREM TypeCorrect == Spec => []TypeOK
<1>1. IInv => TypeOK
  BY DEF IInv
<1>2. QED
  BY <1>1, Invariance, PTL

(* A console that serves (server.js, the end of boot) has found the whole  *)
(* schema and the built-in skills in its database, however many boots were *)
(* creating them, and shares it with no other console unless told to: the  *)
(* database is that of the port it bound, and a port has one holder.       *)
THEOREM ServesTheorem == Spec => []ServesOwnDatabase
<1>1. IInv => ServesOwnDatabase
  <2> SUFFICES ASSUME IInv PROVE ServesOwnDatabase
    OBVIOUS
  <2> USE DEF IInv
  <2>1. ASSUME NEW c \in Console, con[c].pc = "serving"
        PROVE  /\ db[DbOf(c)].schema = Objects
               /\ DbOf(c) \in early \/ \A n \in BuiltIn : db[DbOf(c)].skills[n] # None
    BY <2>1 DEF SchemaSeen, LibrarySound, BuiltInThere
  <2>2. ASSUME NEW c \in Console, con[c].pc = "serving", NEW d \in Console \ {c},
               con[d].pc \in Listening, DbOf(d) = DbOf(c), ~oneDb
        PROVE  FALSE
    <3>1. listener[con[c].port] = c /\ listener[con[d].port] = d
      BY <2>2, Known DEF PortsHeld
    <3>2. con[c].port = con[d].port
      BY <2>2 DEF DbOf
    <3>3. QED
      BY <2>2, <3>1, <3>2
  <2>3. QED
    BY <2>1, <2>2 DEF ServesOwnDatabase
<1>2. QED
  BY <1>1, Invariance, PTL

(* An edit or an override answered with success has been written, unless   *)
(* its row was deleted between the lookup and the write.                   *)
THEOREM AnsweredTheorem == Spec => []AnsweredIsApplied
<1>1. IInv => AnsweredIsApplied
  BY DEF IInv, CrossedKnown
<1>2. QED
  BY <1>1, Invariance, PTL

(* Consoles that race do not all lose, if another program holds not every  *)
(* port they are told to bind: the one that holds a port and is not about  *)
(* to fail, or will come to a port that is free, is always there.          *)
THEOREM SurvivesTheorem ==
  ASSUME NEW c \in Console, PORT[c] \notin Taken
  PROVE  Spec => []OneBootSurvives
<1>1. Init => HopeOrEarly
  <2> SUFFICES ASSUME Init PROVE HopeOrEarly
    OBVIOUS
  <2>1. PORT[c] \in Port \ Taken /\ PORT[c] \in Nat /\ MaxTries \in Nat
    BY ConsoleAssumption DEF Port
  <2>2. listener[PORT[c]] = None /\ con[c].pc = "off"
    BY <2>1 DEF Init, Stopped
  <2>3. Reaches(c, PORT[c])
    BY <2>1, <2>2 DEF Reaches
  <2>4. QED
    BY <2>1, <2>2, <2>3 DEF HopeOrEarly, Hope
<1>2. IInv /\ HopeOrEarly /\ [Next]_vars => HopeOrEarly'
  BY HopeStep
<1>3. IInv /\ HopeOrEarly => OneBootSurvives
  <2> SUFFICES ASSUME IInv, HopeOrEarly, \A x \in Console : con[x].pc = "exited", early = {}
               PROVE  FALSE
    BY DEF OneBootSurvives
  <2>1. PICK p \in Port : IF listener[p] = None THEN \E x \in Console : Reaches(x, p)
                          ELSE ~Doomed(listener[p])
    BY DEF HopeOrEarly, Hope
  <2>2. \A x \in Console : ~Reaches(x, p)
    BY DEF Reaches
  <2>3. listener[p] \in Console /\ con[listener[p]].pc \in Listening
    BY <2>1, <2>2, DbOfType DEF IInv, PortsHeld
  <2>4. QED
    BY <2>3 DEF Listening, Booting
<1>4. QED
  BY <1>1, <1>2, <1>3, Invariance, PTL DEF Spec

(* The consoles' queries on skills implement the indivisible steps of      *)
(* SkillLibrary, for every database that no import was ahead of the seed   *)
(* of: it starts empty or seeded, and every step is one of SkillLibrary's  *)
(* or leaves its library alone.                                            *)
THEOREM LibraryTheorem == Spec => LibraryAtomic
<1>1. Init => LibrariesStart
  <2> SUFFICES ASSUME Init, NEW d \in Db PROVE Library(d)!Init
    BY DEF LibrariesStart
  <2>1. PICK x : (x = Fresh \/ x = Legacy) /\ db = [i \in Db |-> x]
    BY DEF Init
  <2>2. Fresh.skills = [n \in Skill |-> None]
    BY DEF Fresh
  <2>3. PICK schema, seeded : schema = Objects \ {"parent_session_id"} /\ seeded = Seeded
    OBVIOUS
  <2>4. Legacy = [[Fresh EXCEPT !.schema = schema] EXCEPT !.skills = seeded]
    BY <2>3 DEF Legacy
  <2>5. Legacy.skills = Seeded
    BY <2>3, <2>4 DEF Fresh
  <2>6. db[d].skills = [n \in Skill |-> None] \/ db[d].skills = Seeded
    BY <2>1, <2>2, <2>5
  <2>7. QED
    BY <2>6 DEF Seeded, Library!Init, Library!Empty, Library!Seeded
<1>2. IInv /\ [Next]_vars => [LibrariesStep]_vars
  BY SkillsStep DEF IInv, LibrariesStep
<1>3. QED
  BY <1>1, <1>2, Invariance, PTL DEF Spec, LibraryAtomic

-----------------------------------------------------------------------------
(***************************************************************************)
(* Views: what the console shows of the sessions.  First the two readers   *)
(* of a log (LogTail), then the requests.                                  *)
(***************************************************************************)

(* Among natural numbers there is a least one.                             *)
LEMMA LeastNatural ==
  ASSUME NEW S \in SUBSET Nat, S # {}
  PROVE  \E m \in S : \A n \in S : m <= n
<1>1. PICK m \in S : \A n \in S : ~(<<n, m>> \in OpToRel(<, Nat))
  BY WFMin, NatLessThanWellFounded
<1>2. ASSUME NEW n \in S PROVE m <= n
  <2>1. ~(<<n, m>> \in OpToRel(<, Nat))
    BY <1>1, <1>2
  <2>2. ~(n < m)
    BY <2>1 DEF OpToRel
  <2>3. QED
    BY <2>2
<1>3. QED
  BY <1>2

(* Among finitely many there is a greatest one: the one that fewest exceed. *)
LEMMA GreatestNatural ==
  ASSUME NEW S \in SUBSET Nat, S # {}, IsFiniteSet(S)
  PROVE  \E m \in S : \A n \in S : n <= m
<1> DEFINE Over(x) == {y \in S : y > x}
<1> DEFINE counts == {Cardinality(Over(x)) : x \in S}
<1>1. \A x \in S : IsFiniteSet(Over(x)) /\ Cardinality(Over(x)) \in Nat
  <2>1. \A x \in S : Over(x) \in SUBSET S
    OBVIOUS
  <2>2. QED
    BY <2>1, FS_Subset, FS_CardinalityType
<1>2. PICK c \in counts : \A d \in counts : c <= d
  <2> HIDE DEF Over
  <2>1. counts \in SUBSET Nat /\ counts # {}
    BY <1>1
  <2> HIDE DEF counts
  <2>2. QED
    BY <2>1, LeastNatural
<1>3. PICK m \in S : c = Cardinality(Over(m))
  OBVIOUS
<1>4. ASSUME NEW n \in S, ~(n <= m) PROVE FALSE
  <2>1. n > m /\ ~(n > n) /\ \A y \in S : y > n => y > m
    BY <1>4
  <2>2. Over(n) \subseteq Over(m) /\ n \in Over(m) /\ n \notin Over(n)
    BY <2>1, Zenon
  <2> HIDE DEF Over
  <2>3. Cardinality(Over(n)) <= Cardinality(Over(m)) /\ Cardinality(Over(n)) # Cardinality(Over(m))
    BY <2>2, <1>1, FS_Subset
  <2>4. Cardinality(Over(m)) <= Cardinality(Over(n))
    BY <1>2, <1>3
  <2>5. QED
    BY <2>3, <2>4, <1>1
<1>5. QED
  BY <1>4

(* What Min and Max choose.                                                *)
LEMMA MinOf ==
  ASSUME NEW S \in SUBSET Nat, S # {}
  PROVE  Min(S) \in S /\ \A n \in S : Min(S) <= n
<1>1. \E m \in S : \A n \in S : m <= n
  BY LeastNatural
<1>2. QED
  BY <1>1 DEF Min

LEMMA MaxOf ==
  ASSUME NEW S \in SUBSET Nat, S # {}, IsFiniteSet(S)
  PROVE  Max(S) \in S /\ \A n \in S : n <= Max(S)
<1>1. \E m \in S : \A n \in S : m >= n
  BY GreatestNatural
<1>2. QED
  BY <1>1 DEF Max

(* The size of a log is the position of its last newline.                  *)
LEMMA SizeIs ==
  ASSUME NEW L, WellFormed(L)
  PROVE  /\ Size(L) \in Nat
         /\ \A e \in L : e <= Size(L)
         /\ L # {} => Size(L) \in L /\ Size(L) > 1
         /\ L = {} => Size(L) = 0
<1>1. CASE L = {}
  BY <1>1 DEF Size
<1>2. CASE L # {}
  <2>1. L \in SUBSET Nat /\ IsFiniteSet(L)
    BY DEF WellFormed
  <2>2. Max(L) \in L /\ \A n \in L : n <= Max(L)
    BY <1>2, <2>1, MaxOf
  <2>3. Size(L) = Max(L)
    BY <1>2 DEF Size
  <2>4. Max(L) \in Nat \ {0, 1}
    BY <2>2 DEF WellFormed
  <2>5. QED
    BY <1>2, <2>2, <2>3, <2>4
<1>3. QED
  BY <1>1, <1>2

(* Induction, over the set of the numbers for which a formula holds.       *)
LEMMA Induction ==
  ASSUME NEW T, 0 \in T, \A n \in Nat : n \in T => n + 1 \in T
  PROVE  Nat \subseteq T
<1> SUFFICES ASSUME {n \in Nat : n \notin T} # {} PROVE FALSE
  OBVIOUS
<1>1. PICK m \in {n \in Nat : n \notin T} : \A n \in {k \in Nat : k \notin T} : m <= n
  BY LeastNatural
<1>2. m \in Nat \ {0} /\ m \notin T
  BY <1>1
<1>3. m - 1 \in Nat /\ m - 1 < m /\ (m - 1) + 1 = m
  BY <1>2
<1>4. m - 1 \in T
  BY <1>1, <1>3
<1>5. QED
  BY <1>2, <1>3, <1>4

(* The windows are those that the loop tries.                              *)
LEMMA ChunkSizes ==
  chunkSize = [k \in Nat |-> IF k = 0 THEN FirstWindow ELSE 4 * chunkSize[k - 1]]
<1> DEFINE Tried(g, m) == g[0] = FirstWindow /\ \A k \in 1..m : g[k] = 4 * g[k - 1]
<1>0. FirstWindow \in Nat
  BY ChunkAssumption
<1>1. \A m \in Nat : \E g \in [0..m -> Nat] : Tried(g, m)
  <2> DEFINE T == {m \in Nat : \E g \in [0..m -> Nat] : Tried(g, m)}
  <2>1. 0 \in T
    <3>1. [k \in 0..0 |-> FirstWindow] \in [0..0 -> Nat] /\ Tried([k \in 0..0 |-> FirstWindow], 0)
      BY <1>0
    <3>2. QED
      BY <3>1
  <2>2. ASSUME NEW m \in Nat, m \in T PROVE m + 1 \in T
    <3>1. PICK g \in [0..m -> Nat] : Tried(g, m)
      BY <2>2
    <3> DEFINE h == [k \in 0..(m + 1) |-> IF k = m + 1 THEN 4 * g[m] ELSE g[k]]
    <3>2. h \in [0..(m + 1) -> Nat]
      OBVIOUS
    <3>3. h[0] = FirstWindow
      BY <3>1
    <3>4. ASSUME NEW k \in 1..(m + 1) PROVE h[k] = 4 * h[k - 1]
      <4>1. CASE k = m + 1
        BY <4>1
      <4>2. CASE k \in 1..m
        BY <4>2, <3>1
      <4>3. QED
        BY <4>1, <4>2
    <3>5. Tried(h, m + 1)
      BY <3>3, <3>4
    <3> HIDE DEF h, Tried
    <3>6. QED
      BY <3>2, <3>5
  <2> HIDE DEF T
  <2>3. Nat \subseteq T
    BY <2>1, <2>2, Induction
  <2>4. QED
    BY <2>3 DEF T
<1>2. \A k \in Nat : \A m, n \in Nat : \A g \in [0..m -> Nat], h \in [0..n -> Nat] :
        k <= m /\ k <= n /\ Tried(g, m) /\ Tried(h, n) => g[k] = h[k]
  <2> DEFINE Agree(k) == \A m, n \in Nat : \A g \in [0..m -> Nat], h \in [0..n -> Nat] :
                           k <= m /\ k <= n /\ Tried(g, m) /\ Tried(h, n) => g[k] = h[k]
             T == {k \in Nat : Agree(k)}
  <2>1. 0 \in T
    OBVIOUS
  <2>2. ASSUME NEW k \in Nat, Agree(k) PROVE Agree(k + 1)
    <3>1. SUFFICES ASSUME NEW m \in Nat, NEW n \in Nat, NEW g \in [0..m -> Nat], NEW h \in [0..n -> Nat],
                          k + 1 <= m, k + 1 <= n, Tried(g, m), Tried(h, n)
                   PROVE  g[k + 1] = h[k + 1]
      <4> HIDE DEF Tried
      <4>1. QED
        OBVIOUS
    <3>2. g[k] = h[k]
      <4>1. k <= m /\ k <= n
        BY <3>1
      <4> HIDE DEF Tried
      <4>2. QED
        BY <2>2, <3>1, <4>1
    <3>3. k + 1 \in 1..m /\ k + 1 \in 1..n /\ (k + 1) - 1 = k
      BY <3>1
    <3>4. QED
      BY <3>1, <3>2, <3>3
  <2>3. \A k \in Nat : k \in T => k + 1 \in T
    <3> HIDE DEF Agree
    <3>1. QED
      BY <2>2
  <2> HIDE DEF T
  <2>4. Nat \subseteq T
    BY <2>1, <2>3, Induction
  <2>5. QED
    BY <2>4 DEF T
<1> DEFINE upTo(m) == CHOOSE g \in [0..m -> Nat] : Tried(g, m)
           all     == [k \in Nat |-> upTo(k)[k]]
<1>3. \A m \in Nat : upTo(m) \in [0..m -> Nat] /\ Tried(upTo(m), m)
  BY <1>1
<1>4. ASSUME NEW k \in Nat PROVE all[k] = IF k = 0 THEN FirstWindow ELSE 4 * all[k - 1]
  <2> HIDE DEF upTo
  <2>1. CASE k = 0
    BY <1>3, <2>1
  <2>2. CASE k # 0
    <3>1. k \in 1..k /\ k - 1 \in Nat /\ k - 1 <= k /\ k - 1 <= k - 1
      BY <2>2
    <3>2. upTo(k)[k] = 4 * upTo(k)[k - 1]
      BY <1>3, <3>1
    <3> HIDE DEF Tried
    <3>3. upTo(k)[k - 1] = upTo(k - 1)[k - 1]
      BY <1>2, <1>3, <3>1
    <3>4. QED
      BY <2>2, <3>1, <3>2, <3>3
  <2>3. QED
    BY <2>1, <2>2
<1>5. all = [k \in Nat |-> IF k = 0 THEN FirstWindow ELSE 4 * all[k - 1]]
  <2> HIDE DEF upTo
  <2> DEFINE other == [k \in Nat |-> IF k = 0 THEN FirstWindow ELSE 4 * all[k - 1]]
  <2>1. \A k \in Nat : all[k] = other[k]
    <3> HIDE DEF all
    <3>1. QED
      BY <1>4
  <2>2. QED
    BY <2>1
<1> HIDE DEF all
<1>6. QED
  BY <1>5 DEF chunkSize

(* They outgrow every log.                                                 *)
LEMMA ChunksGrow == \A k \in Nat : chunkSize[k] \in Nat /\ k < chunkSize[k]
<1> DEFINE T == {k \in Nat : chunkSize[k] \in Nat /\ k < chunkSize[k]}
<1>1. 0 \in T
  BY ChunkSizes, ChunkAssumption
<1>2. ASSUME NEW k \in Nat, k \in T PROVE k + 1 \in T
  <2>1. k + 1 \in Nat /\ k + 1 # 0 /\ (k + 1) - 1 = k
    OBVIOUS
  <2>2. chunkSize[k + 1] = 4 * chunkSize[k]
    BY <2>1, ChunkSizes
  <2>3. QED
    BY <1>2, <2>2
<1> HIDE DEF T
<1>3. Nat \subseteq T
  BY <1>1, <1>2, Induction
<1>4. QED
  BY <1>3 DEF T

(* What a piece of a log is, when it is read from a position on.           *)
LEMMA Piece ==
  ASSUME NEW L, WellFormed(L), NEW start \in Nat, NEW l
  PROVE  l \in SplitLines(L, start) <=>
           \E a \in {start} \cup L, b \in L :
             /\ l = <<a, b>> /\ start <= a /\ a + 1 < b
             /\ \A c \in L : c <= a \/ b <= c
<1> DEFINE cuts == {start} \cup {e \in L : e > start}
<1>1. L \subseteq Nat
  BY DEF WellFormed
<1>2. ASSUME l \in SplitLines(L, start)
      PROVE  \E a \in {start} \cup L, b \in L :
               l = <<a, b>> /\ start <= a /\ a + 1 < b /\ \A c \in L : c <= a \/ b <= c
  <2>1. PICK a \in cuts, b \in cuts : l = <<a, b>> /\ a + 1 < b /\ \A c \in cuts : c <= a \/ b <= c
    <3>1. /\ l \in cuts \X cuts /\ l[1] + 1 < l[2]
          /\ \A c \in cuts : c <= l[1] \/ l[2] <= c
      BY <1>2 DEF SplitLines
    <3> HIDE DEF cuts
    <3>2. l[1] \in cuts /\ l[2] \in cuts /\ l = <<l[1], l[2]>>
      BY <3>1
    <3>3. QED
      BY <3>1, <3>2
  <2>2. start <= a /\ b # start
    BY <1>1, <2>1
  <2>3. b \in L /\ a \in {start} \cup L
    BY <2>1, <2>2
  <2>4. ASSUME NEW c \in L PROVE c <= a \/ b <= c
    <3>1. CASE c > start
      BY <2>1, <3>1
    <3>2. CASE c <= start
      BY <1>1, <2>2, <2>3, <3>2
    <3>3. QED
      BY <1>1, <3>1, <3>2
  <2>5. QED
    BY <2>1, <2>2, <2>3, <2>4
<1>3. ASSUME NEW a \in {start} \cup L, NEW b \in L, l = <<a, b>>, start <= a, a + 1 < b,
             \A c \in L : c <= a \/ b <= c
      PROVE  l \in SplitLines(L, start)
  <2>1. a \in cuts /\ b \in cuts
    BY <1>1, <1>3
  <2>2. \A c \in cuts : c <= a \/ b <= c
    BY <1>3
  <2>3. l \in cuts \X cuts /\ l[1] = a /\ l[2] = b
    BY <1>3, <2>1
  <2>4. QED
    BY <1>3, <2>2, <2>3 DEF SplitLines
<1>4. QED
  BY <1>2, <1>3

(* Two pieces that begin, or that end, at the same place are the same; the *)
(* one that begins first ends before the other begins.                     *)
LEMMA PiecesApart ==
  ASSUME NEW L, WellFormed(L), NEW start \in Nat,
         NEW k \in SplitLines(L, start), NEW l \in SplitLines(L, start)
  PROVE  /\ k[1] \in Nat /\ k[2] \in L /\ start <= k[1] /\ k[1] + 1 < k[2]
         /\ k[1] = l[1] \/ k[2] = l[2] => k = l
         /\ k[1] < l[1] => k[2] <= l[1]
<1>1. L \subseteq Nat
  BY DEF WellFormed
<1>2. PICK a \in {start} \cup L, b \in L :
        k = <<a, b>> /\ start <= a /\ a + 1 < b /\ \A c \in L : c <= a \/ b <= c
  BY Piece
<1>3. PICK d \in {start} \cup L, e \in L :
        l = <<d, e>> /\ start <= d /\ d + 1 < e /\ \A c \in L : c <= d \/ e <= c
  BY Piece
<1>4. a \in Nat /\ b \in Nat /\ d \in Nat /\ e \in Nat
  BY <1>1
<1>5. k[1] = a /\ k[2] = b /\ l[1] = d /\ l[2] = e
  BY <1>2, <1>3
<1>6. a = d => b = e
  BY <1>2, <1>3, <1>4
<1>7. b = e => a = d
  BY <1>2, <1>3, <1>4
<1>8. a < d => b <= d
  BY <1>2, <1>3, <1>4
<1>9. QED
  BY <1>2, <1>3, <1>4, <1>5, <1>6, <1>7, <1>8

(* There are no more pieces than newlines.                                 *)
LEMMA PiecesFinite ==
  ASSUME NEW L, WellFormed(L), NEW start \in Nat
  PROVE  /\ IsFiniteSet(SplitLines(L, start))
         /\ Cardinality(SplitLines(L, start)) \in Nat
         /\ Cardinality(SplitLines(L, start)) <= Cardinality(L)
<1> DEFINE lines == SplitLines(L, start)
           end == [l \in lines |-> l[2]]
<1>1. IsFiniteSet(L)
  BY DEF WellFormed
<1>2. end \in [lines -> L]
  BY PiecesApart
<1>3. \A k, l \in lines : end[k] = end[l] => k = l
  BY PiecesApart
<1> HIDE DEF lines, end
<1>4. end \in Injection(lines, L)
  BY <1>2, <1>3 DEF Injection, IsInjective
<1>5. IsFiniteSet(lines) /\ Cardinality(lines) <= Cardinality(L)
  BY <1>1, <1>4, FS_Injection
<1>6. QED
  BY <1>5, FS_CardinalityType DEF lines

(* A piece that does not begin where the reading begins is a line of the   *)
(* log, and every line is read of which nothing is cut off.                *)
LEMMA PieceIsLine ==
  ASSUME NEW L, WellFormed(L), NEW start \in Nat, NEW l
  PROVE  /\ l \in SplitLines(L, start) /\ l[1] # start => l \in Lines(L)
         /\ l \in Lines(L) /\ start <= l[1] => l \in SplitLines(L, start)
<1>1. L \subseteq Nat /\ \A e \in L : e > 0
  BY DEF WellFormed
<1>2. ASSUME l \in SplitLines(L, start), l[1] # start PROVE l \in SplitLines(L, 0)
  <2>1. PICK a \in {start} \cup L, b \in L :
          l = <<a, b>> /\ start <= a /\ a + 1 < b /\ \A c \in L : c <= a \/ b <= c
    BY <1>2, Piece
  <2>2. a \in {0} \cup L /\ 0 <= a
    BY <1>1, <1>2, <2>1
  <2>3. QED
    BY <2>1, <2>2, Piece
<1>3. ASSUME l \in SplitLines(L, 0), start <= l[1] PROVE l \in SplitLines(L, start)
  <2>1. PICK a \in {0} \cup L, b \in L :
          l = <<a, b>> /\ 0 <= a /\ a + 1 < b /\ \A c \in L : c <= a \/ b <= c
    BY <1>3, Piece
  <2>2. a \in {start} \cup L /\ start <= a
    BY <1>1, <1>3, <2>1
  <2>3. QED
    BY <2>1, <2>2, Piece
<1>4. QED
  BY <1>2, <1>3 DEF Lines

(* Every newline that is more than one character into what is read ends a  *)
(* piece.                                                                  *)
LEMMA EndsPiece ==
  ASSUME NEW L, WellFormed(L), NEW start \in Nat, NEW b \in L, start + 1 < b
  PROVE  \E l \in SplitLines(L, start) : l[2] = b
<1> DEFINE earlier == {c \in {start} \cup L : start <= c /\ c < b}
<1>1. L \subseteq Nat /\ IsFiniteSet(L) /\ \A d, e \in L : d < e => d + 1 < e
  BY DEF WellFormed
<1>2. earlier \in SUBSET Nat /\ start \in earlier
  <2>1. b \in Nat /\ start < b /\ start <= start
    BY <1>1
  <2>2. QED
    BY <1>1, <2>1
<1>3. IsFiniteSet(earlier)
  <2>1. \A c \in earlier : c <= b
    BY <1>1
  <2>2. b \in Nat
    BY <1>1
  <2> HIDE DEF earlier
  <2>3. QED
    BY <1>2, <2>1, <2>2, FS_BoundedSetOfNaturals
<1>4. PICK a \in earlier : \A c \in earlier : c <= a
  <2> HIDE DEF earlier
  <2>1. QED
    BY <1>2, <1>3, GreatestNatural
<1>5. a + 1 < b
  <2>1. CASE a = start
    BY <2>1
  <2>2. CASE a \in L
    BY <1>1, <1>4, <2>2
  <2>3. QED
    BY <1>4, <2>1, <2>2
<1>6. ASSUME NEW c \in L PROVE c <= a \/ b <= c
  <2>1. CASE start <= c /\ c < b
    BY <1>4, <2>1
  <2>2. CASE c < start
    BY <1>1, <1>2, <1>4, <2>2
  <2>3. QED
    BY <1>1, <2>1, <2>2
<1>7. a \in {start} \cup L /\ start <= a
  BY <1>4
<1>8. <<a, b>> \in SplitLines(L, start)
  BY <1>5, <1>6, <1>7, Piece
<1>9. QED
  BY <1>8

(* A part of some finite set, and what comes after a line of it.           *)
LEMMA AfterCounts ==
  ASSUME NEW S, IsFiniteSet(S), NEW l
  PROVE  /\ IsFiniteSet(After(S, l)) /\ Cardinality(After(S, l)) \in Nat
         /\ After(S, l) \subseteq S
<1>1. After(S, l) \in SUBSET S
  BY DEF After
<1>2. QED
  BY <1>1, FS_Subset, FS_CardinalityType

(* A part of a finite set is no larger.                                    *)
LEMMA Smaller ==
  ASSUME NEW S, IsFiniteSet(S), NEW T, T \subseteq S
  PROVE  /\ IsFiniteSet(T) /\ Cardinality(T) \in Nat /\ Cardinality(S) \in Nat
         /\ Cardinality(T) <= Cardinality(S)
         /\ T # S => Cardinality(T) < Cardinality(S)
<1>1. IsFiniteSet(T) /\ Cardinality(T) <= Cardinality(S) /\ (Cardinality(S) = Cardinality(T) => S = T)
  BY FS_Subset
<1>2. QED
  BY <1>1, FS_CardinalityType

(* In a log that is read whole, every newline ends a line.                 *)
LEMMA LastLine ==
  ASSUME NEW L, WellFormed(L), L # {}
  PROVE  \E l \in Lines(L) : l[2] = Size(L) /\ After(Lines(L), l) = {}
<1>1. Size(L) \in L /\ 0 + 1 < Size(L) /\ \A e \in L : e <= Size(L)
  BY SizeIs
<1>2. PICK l \in SplitLines(L, 0) : l[2] = Size(L)
  BY <1>1, EndsPiece
<1>3. ASSUME NEW k \in SplitLines(L, 0), k[1] > l[1] PROVE FALSE
  <2>1. k[1] \in Nat /\ l[1] \in Nat /\ k[2] \in L /\ l[2] \in L /\ k[1] + 1 < k[2]
    BY PiecesApart
  <2>2. l[1] < k[1]
    BY <1>3, <2>1
  <2>3. l[2] <= k[1]
    BY <2>2, PiecesApart
  <2>4. Size(L) \in Nat /\ k[2] \in Nat /\ k[2] <= Size(L) /\ Size(L) <= k[1]
    BY <1>1, <1>2, <2>1, <2>3 DEF WellFormed
  <2>5. QED
    BY <2>1, <2>4
<1>4. QED
  BY <1>2, <1>3 DEF Lines, After

(* The lines after a piece are those after it in the log.                  *)
LEMMA AfterPiece ==
  ASSUME NEW L, WellFormed(L), NEW start \in Nat, NEW l, l[1] \in Nat, start <= l[1]
  PROVE  After(SplitLines(L, start), l) = After(Lines(L), l)
<1>1. ASSUME NEW k \in SplitLines(L, start), k[1] > l[1] PROVE k \in Lines(L)
  <2>1. k[1] \in Nat /\ k[1] # start
    BY <1>1, PiecesApart
  <2>2. QED
    BY <2>1, PieceIsLine
<1>2. ASSUME NEW k \in Lines(L), k[1] > l[1] PROVE k \in SplitLines(L, start)
  <2>1. k[1] \in Nat
    BY PiecesApart DEF Lines
  <2>2. start <= k[1]
    BY <1>2, <2>1
  <2>3. QED
    BY <2>2, PieceIsLine
<1>3. QED
  BY <1>1, <1>2 DEF After

(* Of any number of last lines each is followed by others of them only.    *)
LEMMA LastAreLast ==
  ASSUME NEW L, WellFormed(L), NEW n \in Nat, NEW l \in LastOf(Lines(L), n)
  PROVE  l \in Lines(L) /\ After(Lines(L), l) \subseteq LastOf(Lines(L), n)
<1> DEFINE all == Lines(L)
<1>1. IsFiniteSet(all) /\ \A k \in all : k[1] \in Nat
  BY PiecesFinite, PiecesApart DEF Lines
<1>2. l \in all /\ Cardinality(After(all, l)) < n
  BY DEF LastOf
<1> HIDE DEF all
<1>3. ASSUME NEW k \in After(all, l) PROVE Cardinality(After(all, k)) < n
  <2>1. After(all, k) \subseteq After(all, l)
    BY <1>1, <1>2, <1>3 DEF After
  <2>2. IsFiniteSet(After(all, l)) /\ Cardinality(After(all, l)) \in Nat
    BY <1>1, AfterCounts
  <2>3. Cardinality(After(all, k)) <= Cardinality(After(all, l)) /\ Cardinality(After(all, k)) \in Nat
    BY <2>1, <2>2, Smaller
  <2>4. QED
    BY <1>2, <2>2, <2>3
<1>4. After(all, l) \subseteq all
  BY DEF After
<1>5. QED
  BY <1>2, <1>3, <1>4 DEF all, LastOf

(* A few lines are the last of themselves, and the first.                  *)
LEMMA FewAreAll ==
  ASSUME NEW L, WellFormed(L), NEW n \in Nat, Cardinality(L) <= n
  PROVE  LastOf(Lines(L), n) = Lines(L) /\ FirstOf(Lines(L), n) = Lines(L)
<1> DEFINE all == Lines(L)
<1>1. IsFiniteSet(all) /\ \A k \in all : k[1] \in Nat
  BY PiecesFinite, PiecesApart DEF Lines
<1>2. Cardinality(all) <= Cardinality(L) /\ Cardinality(all) \in Nat /\ Cardinality(L) \in Nat
  BY PiecesFinite, FS_CardinalityType DEF Lines, WellFormed
<1> HIDE DEF all
<1>3. ASSUME NEW l \in all
      PROVE  Cardinality(After(all, l)) < n /\ Cardinality(Before(all, l)) < n
  <2>1. After(all, l) \subseteq all /\ l \notin After(all, l)
    BY <1>1 DEF After
  <2>2. Before(all, l) \subseteq all /\ l \notin Before(all, l)
    BY <1>1 DEF Before
  <2>3. Cardinality(After(all, l)) < Cardinality(all) /\ Cardinality(Before(all, l)) < Cardinality(all)
        /\ Cardinality(After(all, l)) \in Nat /\ Cardinality(Before(all, l)) \in Nat
    BY <1>1, <2>1, <2>2, Smaller
  <2>4. QED
    BY <1>2, <2>3
<1>4. QED
  BY <1>3 DEF LastOf, FirstOf, all

(* Read from whatever position, more lines than are wanted include those   *)
(* that are wanted, and none of these is cut short.                        *)
LEMMA EnoughRead ==
  ASSUME NEW L, WellFormed(L), NEW n \in Nat, NEW start \in Nat,
         start = 0 \/ Cardinality(SplitLines(L, start)) > n
  PROVE  LastOf(SplitLines(L, start), n) = LastOf(Lines(L), n)
<1> DEFINE P == SplitLines(L, start)
           all == Lines(L)
<1>1. CASE start = 0
  BY <1>1 DEF Lines
<1>2. CASE Cardinality(P) > n
  <2>1. IsFiniteSet(P) /\ IsFiniteSet(all) /\ Cardinality(P) \in Nat
    BY PiecesFinite DEF Lines
  <2>2. ASSUME NEW S, IsFiniteSet(S), \A k \in P : k[1] # start => k \in S PROVE Cardinality(S) >= n
    <3> DEFINE rest == {k \in P : k[1] # start}
    <3>1. IsFiniteSet(rest) /\ Cardinality(rest) >= Cardinality(P) - 1 /\ Cardinality(rest) \in Nat
      <4>1. CASE \E k \in P : k[1] = start
        <5>1. PICK k \in P : k[1] = start
          BY <4>1
        <5>2. rest = P \ {k}
          BY <5>1, PiecesApart
        <5> HIDE DEF rest, P
        <5>3. IsFiniteSet(rest) /\ Cardinality(rest) = Cardinality(P) - 1
          BY <2>1, <5>1, <5>2, FS_RemoveElement
        <5>4. QED
          BY <2>1, <5>3, FS_CardinalityType
      <4>2. CASE ~ \E k \in P : k[1] = start
        <5>1. rest = P
          BY <4>2
        <5> HIDE DEF rest, P
        <5>2. QED
          BY <2>1, <5>1
      <4>3. QED
        BY <4>1, <4>2
    <3>2. rest \subseteq S
      BY <2>2
    <3> HIDE DEF rest, P
    <3>3. Cardinality(rest) <= Cardinality(S) /\ Cardinality(S) \in Nat
      BY <2>2, <3>2, Smaller
    <3>4. QED
      BY <1>2, <2>1, <3>1, <3>3
  <2>3. ASSUME NEW l \in P, Cardinality(After(P, l)) < n PROVE l \in LastOf(all, n)
    <3>1. l[1] \in Nat /\ start <= l[1]
      BY PiecesApart
    <3>2. l[1] # start
      <4>1. SUFFICES ASSUME l[1] = start PROVE FALSE
        OBVIOUS
      <4>2. \A k \in P : k[1] # start => k \in After(P, l)
        BY <4>1, PiecesApart DEF After
      <4>3. IsFiniteSet(After(P, l)) /\ Cardinality(After(P, l)) \in Nat
        BY <2>1, AfterCounts
      <4>4. Cardinality(After(P, l)) >= n
        BY <2>2, <4>2, <4>3
      <4>5. QED
        BY <2>3, <4>3, <4>4
    <3>3. l \in all
      BY <3>2, PieceIsLine
    <3>4. After(P, l) = After(all, l)
      BY <3>1, AfterPiece
    <3>5. QED
      BY <2>3, <3>3, <3>4 DEF LastOf
  <2>4. ASSUME NEW l \in all, Cardinality(After(all, l)) < n PROVE l \in LastOf(P, n)
    <3>1. l[1] \in Nat
      BY PiecesApart DEF Lines
    <3>2. start <= l[1]
      <4>1. SUFFICES ASSUME l[1] < start PROVE FALSE
        BY <3>1
      <4>2. ASSUME NEW k \in P, k[1] # start PROVE k \in After(all, l)
        <5>1. k \in all /\ k[1] \in Nat /\ start <= k[1]
          BY <4>2, PieceIsLine, PiecesApart
        <5>2. k[1] > l[1]
          BY <3>1, <4>1, <5>1
        <5>3. QED
          BY <5>1, <5>2 DEF After
      <4>3. IsFiniteSet(After(all, l)) /\ Cardinality(After(all, l)) \in Nat
        BY <2>1, AfterCounts
      <4>4. Cardinality(After(all, l)) >= n
        BY <2>2, <4>2, <4>3
      <4>5. QED
        BY <2>4, <4>3, <4>4
    <3>3. l \in P
      BY <3>2, PieceIsLine
    <3>4. After(P, l) = After(all, l)
      BY <3>1, <3>2, AfterPiece
    <3>5. QED
      BY <2>4, <3>3, <3>4 DEF LastOf
  <2>5. LastOf(P, n) \subseteq LastOf(all, n)
    BY <2>3 DEF LastOf
  <2>6. LastOf(all, n) \subseteq LastOf(P, n)
    BY <2>4 DEF LastOf
  <2>7. QED
    BY <2>5, <2>6
<1>3. QED
  BY <1>1, <1>2

(* The status report: the window is wide enough in the end, and then shows *)
(* the last lines.                                                         *)
LEMMA StatusTail ==
  ASSUME NEW L, WellFormed(L), NEW n \in Nat
  PROVE  tailJsonLines(L, n) = LastOf(Lines(L), n)
<1> DEFINE start(k) == IF chunkSize[k] < Size(L) THEN Size(L) - chunkSize[k] ELSE 0
           lines(k) == SplitLines(L, start(k))
           enough == {k \in 0..Size(L) : Size(L) <= chunkSize[k] \/ Cardinality(lines(k)) > n}
<1>1. Size(L) \in Nat
  BY SizeIs
<1>2. \A k \in Nat : chunkSize[k] \in Nat /\ k < chunkSize[k]
  BY ChunksGrow
<1>3. enough \in SUBSET Nat /\ Size(L) \in enough
  <2>1. Size(L) \in 0..Size(L) /\ Size(L) <= chunkSize[Size(L)]
    BY <1>1, <1>2
  <2>2. QED
    BY <1>1, <2>1
<1> DEFINE k == Min(enough)
<1>4. k \in enough
  <2> HIDE DEF enough
  <2>1. QED
    BY <1>3, MinOf
<1>5. start(k) \in Nat /\ (start(k) = 0 \/ Cardinality(lines(k)) > n)
  <2>1. k \in Nat /\ chunkSize[k] \in Nat /\ (Size(L) <= chunkSize[k] \/ Cardinality(lines(k)) > n)
    BY <1>2, <1>3, <1>4
  <2> HIDE DEF k, lines
  <2>2. QED
    BY <1>1, <2>1
<1>6. LastOf(lines(k), n) = LastOf(Lines(L), n)
  <2> HIDE DEF start, k
  <2>1. QED
    BY <1>5, EnoughRead
<1>7. tailJsonLines(L, n) = LastOf(lines(k), n)
  BY DEF tailJsonLines
<1>8. QED
  BY <1>6, <1>7

(* A chunk begins inside the log.                                          *)
LEMMA ChunkStarts ==
  ASSUME NEW L, WellFormed(L), ~(Size(L) <= SMALL_FILE_THRESHOLD)
  PROVE  /\ Size(L) - TAIL_CHUNK_BYTES \in Nat /\ TAIL_CHUNK_BYTES \in Nat /\ TAIL_CHUNK_BYTES > 1
         /\ Size(L) \in Nat /\ L # {}
BY SizeIs, ChunkAssumption

(* What is left of the pieces of a chunk without the first of them are     *)
(* lines of the log, each with all that follow it.                         *)
LEMMA ShiftedAreLines ==
  ASSUME NEW L, WellFormed(L), NEW start \in Nat, NEW l \in Shifted(SplitLines(L, start))
  PROVE  /\ l \in Lines(L) /\ l[1] \in Nat /\ start < l[1]
         /\ After(Lines(L), l) = After(Shifted(SplitLines(L, start)), l)
<1> DEFINE P == SplitLines(L, start)
<1>1. PICK k \in P : k[1] < l[1]
  BY DEF Shifted, Before
<1>2. l \in P
  BY DEF Shifted
<1>3. k[1] \in Nat /\ start <= k[1] /\ l[1] \in Nat
  BY <1>2, PiecesApart
<1>4. start < l[1] /\ start <= l[1] /\ l[1] # start
  BY <1>1, <1>3
<1>5. l \in Lines(L)
  BY <1>2, <1>4, PieceIsLine
<1>6. After(P, l) = After(Lines(L), l)
  BY <1>3, <1>4, AfterPiece
<1>7. ASSUME NEW j \in After(P, l) PROVE j \in After(Shifted(P), l)
  BY <1>2, <1>7 DEF After, Shifted, Before
<1>8. After(Shifted(P), l) \subseteq After(P, l)
  BY DEF After, Shifted
<1>9. QED
  BY <1>3, <1>4, <1>5, <1>6, <1>7, <1>8

(* The pieces of a chunk of which none is the second: the last line.       *)
LEMMA OnePiece ==
  ASSUME NEW L, WellFormed(L), L # {}, NEW start \in Nat, Shifted(SplitLines(L, start)) = {},
         \A l \in Lines(L) : l[2] = Size(L) => start <= l[1]
  PROVE  \A l \in SplitLines(L, start) : l \in Lines(L) /\ After(Lines(L), l) = {}
<1>1. PICK z \in Lines(L) : z[2] = Size(L) /\ After(Lines(L), z) = {}
  BY LastLine
<1>2. z \in SplitLines(L, start)
  BY <1>1, PieceIsLine
<1>3. ASSUME NEW l \in SplitLines(L, start) PROVE l = z
  <2>1. l[1] \in Nat /\ z[1] \in Nat
    BY <1>2, PiecesApart
  <2>2. ~(l[1] < z[1]) /\ ~(z[1] < l[1])
    BY <1>2 DEF Shifted, Before
  <2>3. l[1] = z[1]
    BY <2>1, <2>2
  <2>4. QED
    BY <1>2, <2>3, PiecesApart
<1>4. QED
  BY <1>1, <1>3

(* What the page shows of a log are its last lines, if the last one fits   *)
(* into the chunk, and all of those that the chunk holds.                  *)
LEMMA PageTail ==
  ASSUME NEW L, WellFormed(L), NEW n \in Nat \ {0},
         \A l \in Lines(L) : l[2] = Size(L) => Size(L) - l[1] <= TAIL_CHUNK_BYTES
  PROVE  /\ tailLines(L, n) \subseteq Lines(L)
         /\ \A l \in tailLines(L, n) : After(Lines(L), l) \subseteq tailLines(L, n)
         /\ \A l \in LastOf(Lines(L), n) :
              Size(L) - l[1] + 2 <= TAIL_CHUNK_BYTES \/ Size(L) <= SMALL_FILE_THRESHOLD =>
                l \in tailLines(L, n)
<1> DEFINE all == Lines(L)
<1>1. CASE Size(L) <= SMALL_FILE_THRESHOLD
  BY <1>1, LastAreLast DEF tailLines, LastOf
<1>2. CASE ~(Size(L) <= SMALL_FILE_THRESHOLD)
  <2> DEFINE start == Size(L) - TAIL_CHUNK_BYTES
             P == SplitLines(L, start)
             S == Shifted(P)
  <2>1. start \in Nat /\ TAIL_CHUNK_BYTES \in Nat /\ Size(L) \in Nat /\ L # {}
    BY <1>2, ChunkStarts
  <2>2. tailLines(L, n) = LastOf(IF S # {} THEN S ELSE P, n)
    BY <1>2 DEF tailLines
  <2>3. IsFiniteSet(all) /\ \A l \in all : l[1] \in Nat
    BY PiecesFinite, PiecesApart DEF Lines
  <2>4. CASE S # {}
    <3>1. \A l \in S : l \in all /\ l[1] \in Nat /\ start < l[1] /\ After(all, l) = After(S, l)
      BY <2>1, ShiftedAreLines
    <3> HIDE DEF S
    <3>2. tailLines(L, n) = LastOf(S, n)
      BY <2>2, <2>4
    <3>3. LastOf(S, n) \subseteq LastOf(all, n) /\ LastOf(S, n) \subseteq all
      BY <3>1 DEF LastOf
    <3>4. ASSUME NEW l \in LastOf(S, n) PROVE After(all, l) \subseteq LastOf(S, n)
      <4>1. After(all, l) \subseteq LastOf(all, n)
        BY <3>3, LastAreLast
      <4>2. After(all, l) \subseteq S
        BY <3>1 DEF LastOf, After
      <4>3. QED
        BY <3>1, <4>1, <4>2 DEF LastOf
    <3>5. ASSUME NEW l \in LastOf(all, n), Size(L) - l[1] + 2 <= TAIL_CHUNK_BYTES PROVE l \in LastOf(S, n)
      <4>1. l \in all /\ l[1] \in Nat
        BY <2>3 DEF LastOf
      <4>2. start + 1 < l[1] /\ start <= l[1] /\ l[1] # 0
        BY <2>1, <3>5, <4>1
      <4>3. l[1] \in L
        BY <4>1, <4>2, Piece DEF Lines
      <4>4. PICK k \in P : k[2] = l[1]
        BY <2>1, <4>2, <4>3, EndsPiece
      <4>5. k[1] \in Nat /\ k[2] \in L /\ k[1] + 1 < k[2]
        BY <2>1, PiecesApart
      <4>6. k[1] < l[1]
        BY <4>1, <4>4, <4>5
      <4>7. l \in P
        BY <2>1, <4>1, <4>2, PieceIsLine
      <4>8. l \in S
        BY <4>6, <4>7 DEF S, Shifted, Before
      <4>9. QED
        BY <3>1, <4>8 DEF LastOf
    <3>6. QED
      BY <1>2, <3>2, <3>3, <3>4, <3>5
  <2>5. CASE S = {}
    <3>1. \A l \in all : l[2] = Size(L) => start <= l[1]
      BY <2>1, <2>3
    <3>2. \A l \in P : l \in all /\ After(all, l) = {}
      BY <2>1, <2>5, <3>1, OnePiece
    <3>3. tailLines(L, n) = LastOf(P, n) /\ LastOf(P, n) \subseteq P
      BY <2>2, <2>5 DEF LastOf
    <3>4. ASSUME NEW l \in LastOf(all, n), Size(L) - l[1] + 2 <= TAIL_CHUNK_BYTES PROVE FALSE
      <4>1. l \in all /\ l[1] \in Nat
        BY <2>3 DEF LastOf
      <4>2. start + 1 < l[1] /\ start <= l[1] /\ l[1] # 0
        BY <2>1, <3>4, <4>1
      <4>3. l[1] \in L
        BY <4>1, <4>2, Piece DEF Lines
      <4>4. PICK k \in P : k[2] = l[1]
        BY <2>1, <4>2, <4>3, EndsPiece
      <4>5. k[1] \in Nat /\ k[2] \in L /\ k[1] + 1 < k[2]
        BY <2>1, PiecesApart
      <4>6. k[1] < l[1]
        BY <4>1, <4>4, <4>5
      <4>7. l \in P
        BY <2>1, <4>1, <4>2, PieceIsLine
      <4>8. QED
        BY <2>5, <4>6, <4>7 DEF Shifted, Before
    <3>5. QED
      BY <1>2, <3>2, <3>3, <3>4
  <2>6. QED
    BY <2>4, <2>5
<1>3. QED
  BY <1>1, <1>2

(* What both readers show of any log.                                      *)
LEMMA TailsAlwaysMatch ==
  ASSUME NEW L, WellFormed(L), NEW n \in Nat \ {0}
  PROVE  TailsMatch(L, n)
BY StatusTail, PageTail DEF TailsMatch

(* A log with lines is never shown as one without.                         *)
LEMMA PageTailShows ==
  ASSUME NEW L, WellFormed(L), L # {}, NEW n \in Nat \ {0}
  PROVE  tailLines(L, n) # {}
<1>1. PICK z \in Lines(L) : z[2] = Size(L) /\ After(Lines(L), z) = {}
  BY LastLine
<1>2. Cardinality({}) = 0
  BY FS_EmptySet
<1>3. CASE Size(L) <= SMALL_FILE_THRESHOLD
  BY <1>1, <1>2, <1>3 DEF tailLines, LastOf
<1>4. CASE ~(Size(L) <= SMALL_FILE_THRESHOLD)
  <2> DEFINE start == Size(L) - TAIL_CHUNK_BYTES
             P == SplitLines(L, start)
             S == Shifted(P)
  <2>1. start \in Nat /\ start + 1 < Size(L)
    BY <1>4, ChunkStarts
  <2>2. PICK p \in P : p[2] = Size(L)
    BY <2>1, SizeIs, EndsPiece
  <2>3. ASSUME NEW k \in P PROVE ~(k[1] > p[1])
    <3>1. k[1] \in Nat /\ p[1] \in Nat /\ k[2] \in L /\ k[1] + 1 < k[2] /\ (p[1] < k[1] => p[2] <= k[1])
      BY <2>1, PiecesApart
    <3>2. k[2] \in Nat /\ k[2] <= Size(L) /\ Size(L) \in Nat
      BY <3>1, SizeIs DEF WellFormed
    <3>3. QED
      BY <2>2, <3>1, <3>2
  <2>4. After(P, p) = {} /\ After(S, p) = {}
    BY <2>3 DEF After, Shifted
  <2>5. S # {} => p \in S
    <3>1. SUFFICES ASSUME NEW l \in S PROVE p \in S
      OBVIOUS
    <3>2. PICK k \in P : k[1] < l[1]
      BY DEF Shifted, Before
    <3>3. l \in P /\ ~(l[1] > p[1]) /\ k[1] \in Nat /\ l[1] \in Nat /\ p[1] \in Nat
      BY <2>1, <2>3, PiecesApart DEF Shifted
    <3>4. k[1] < p[1]
      BY <3>2, <3>3
    <3>5. QED
      BY <3>4 DEF Shifted, Before
  <2>6. p \in LastOf(IF S # {} THEN S ELSE P, n)
    BY <1>2, <2>4, <2>5 DEF LastOf
  <2>7. QED
    BY <1>4, <2>6 DEF tailLines
<1>5. QED
  BY <1>3, <1>4

(* Of the lines of a log, or the rows of a table, ...                      *)
Ordered(S) ==
  /\ IsFiniteSet(S) /\ \A l \in S : l[1] \in Nat
  /\ \A k, l \in S : k[1] = l[1] => k = l

LEMMA LinesOrdered ==
  ASSUME NEW L, WellFormed(L), NEW start \in Nat
  PROVE  Ordered(SplitLines(L, start)) /\ Ordered(Shifted(SplitLines(L, start)))
<1> DEFINE P == SplitLines(L, start)
<1>1. IsFiniteSet(P) /\ \A k, l \in P : k[1] = l[1] => k = l
  BY PiecesFinite, PiecesApart
<1>2. \A l \in P : l[1] \in Nat
  BY PiecesApart
<1>3. Shifted(P) \in SUBSET P
  BY DEF Shifted
<1> HIDE DEF P
<1>4. IsFiniteSet(Shifted(P))
  BY <1>1, <1>3, FS_Subset
<1>5. QED
  BY <1>1, <1>2, <1>3, <1>4 DEF Ordered, P

(* ... no more than a number are among its last, or its first, that many.  *)
LEMMA AtMost ==
  ASSUME NEW S, Ordered(S), NEW n \in Nat
  PROVE  /\ Cardinality(LastOf(S, n)) <= n /\ LastOf(S, n) \subseteq S
         /\ Cardinality(FirstOf(S, n)) <= n /\ FirstOf(S, n) \subseteq S
<1>1. LastOf(S, n) \in SUBSET S /\ FirstOf(S, n) \in SUBSET S
  BY DEF LastOf, FirstOf
<1>2. ASSUME NEW T \in SUBSET S, NEW m \in T, NEW U \in SUBSET S, T \subseteq U \cup {m}, Cardinality(U) < n
      PROVE  Cardinality(T) <= n
  <2>1. IsFiniteSet(U) /\ Cardinality(U) \in Nat
    BY FS_Subset, FS_CardinalityType DEF Ordered
  <2>2. /\ IsFiniteSet(U \cup {m})
        /\ Cardinality(U \cup {m}) = IF m \in U THEN Cardinality(U) ELSE Cardinality(U) + 1
    BY <2>1, FS_AddElement
  <2>3. Cardinality(T) <= Cardinality(U \cup {m}) /\ Cardinality(T) \in Nat /\ Cardinality(U \cup {m}) \in Nat
    BY <1>2, <2>2, Smaller
  <2>4. QED
    BY <1>2, <2>1, <2>2, <2>3
<1>3. Cardinality({}) = 0
  BY FS_EmptySet
<1>4. Cardinality(LastOf(S, n)) <= n
  <2> DEFINE T == LastOf(S, n)
             heads == {l[1] : l \in T}
  <2>1. SUFFICES ASSUME T # {} PROVE Cardinality(T) <= n
    BY <1>3
  <2>2. heads \in SUBSET Nat /\ heads # {}
    BY <1>1, <2>1 DEF Ordered
  <2>3. PICK x \in heads : \A y \in heads : x <= y
    <3> HIDE DEF heads
    <3> QED BY <2>2, LeastNatural
  <2>4. PICK m \in T : m[1] = x
    OBVIOUS
  <2>5. ASSUME NEW k \in T, k # m PROVE k \in After(S, m)
    <3>1. k \in S /\ m \in S /\ k[1] \in Nat /\ m[1] \in Nat /\ k[1] # m[1] /\ m[1] <= k[1]
      BY <1>1, <2>3, <2>4, <2>5 DEF Ordered
    <3>2. QED
      BY <3>1 DEF After
  <2>6. After(S, m) \in SUBSET S /\ Cardinality(After(S, m)) < n
    BY DEF After, LastOf
  <2> HIDE DEF T
  <2>7. QED
    BY <1>1, <1>2, <2>5, <2>6 DEF T
<1>5. Cardinality(FirstOf(S, n)) <= n
  <2> DEFINE T == FirstOf(S, n)
             heads == {l[1] : l \in T}
  <2>1. SUFFICES ASSUME T # {} PROVE Cardinality(T) <= n
    BY <1>3
  <2>2. heads \in SUBSET Nat /\ heads # {}
    BY <1>1, <2>1 DEF Ordered
  <2>3. IsFiniteSet(heads)
    <3>1. IsFiniteSet(T)
      BY <1>1, FS_Subset DEF Ordered
    <3> HIDE DEF T
    <3>2. [l \in T |-> l[1]] \in Surjection(T, heads)
      BY DEF Surjection
    <3>3. QED
      BY <3>1, <3>2, FS_Surjection
  <2>4. PICK x \in heads : \A y \in heads : y <= x
    <3> HIDE DEF heads
    <3> QED BY <2>2, <2>3, GreatestNatural
  <2>5. PICK m \in T : m[1] = x
    OBVIOUS
  <2>6. ASSUME NEW k \in T, k # m PROVE k \in Before(S, m)
    <3>1. k \in S /\ m \in S /\ k[1] \in Nat /\ m[1] \in Nat /\ k[1] # m[1] /\ k[1] <= m[1]
      BY <1>1, <2>4, <2>5, <2>6 DEF Ordered
    <3>2. QED
      BY <3>1 DEF Before
  <2>7. Before(S, m) \in SUBSET S /\ Cardinality(Before(S, m)) < n
    BY DEF Before, FirstOf
  <2> HIDE DEF T
  <2>8. QED
    BY <1>1, <1>2, <2>6, <2>7 DEF T
<1>6. QED
  BY <1>1, <1>4, <1>5 DEF Ordered

(* The first rows of a table are few, some if there are any, all if those  *)
(* are few, and none is without the rows before it.                        *)
LEMMA FirstRows ==
  ASSUME NEW S, Ordered(S), NEW n \in Nat \ {0}
  PROVE  /\ S # {} => FirstOf(S, n) # {}
         /\ Cardinality(S) <= n => FirstOf(S, n) = S
         /\ \A l \in FirstOf(S, n), k \in S : k[1] < l[1] => k \in FirstOf(S, n)
<1>1. IsFiniteSet(S) /\ \A l \in S : l[1] \in Nat
  BY DEF Ordered
<1>2. ASSUME S # {} PROVE FirstOf(S, n) # {}
  <2> DEFINE heads == {l[1] : l \in S}
  <2>1. heads \in SUBSET Nat /\ heads # {}
    BY <1>1, <1>2
  <2>2. PICK x \in heads : \A y \in heads : x <= y
    <3> HIDE DEF heads
    <3> QED BY <2>1, LeastNatural
  <2>3. PICK l \in S : l[1] = x
    OBVIOUS
  <2>4. ASSUME NEW k \in S, k[1] < l[1] PROVE FALSE
    <3>1. l[1] <= k[1] /\ k[1] \in Nat /\ l[1] \in Nat
      BY <1>1, <2>2, <2>3
    <3>2. QED
      BY <2>4, <3>1
  <2>5. Before(S, l) = {}
    BY <2>4 DEF Before
  <2>6. Cardinality({}) = 0
    BY FS_EmptySet
  <2>7. QED
    BY <2>5, <2>6 DEF FirstOf
<1>3. ASSUME Cardinality(S) <= n, NEW l \in S PROVE l \in FirstOf(S, n)
  <2>1. Before(S, l) \subseteq S /\ l \notin Before(S, l)
    BY <1>1 DEF Before
  <2>2. /\ Cardinality(Before(S, l)) < Cardinality(S)
        /\ Cardinality(Before(S, l)) \in Nat /\ Cardinality(S) \in Nat
    BY <1>1, <2>1, Smaller
  <2>3. QED
    BY <1>3, <2>2 DEF FirstOf
<1>4. ASSUME NEW l \in FirstOf(S, n), NEW k \in S, k[1] < l[1] PROVE k \in FirstOf(S, n)
  <2>1. l \in S /\ Cardinality(Before(S, l)) < n
    BY DEF FirstOf
  <2>2. Before(S, k) \subseteq Before(S, l) /\ Before(S, l) \subseteq S
    BY <1>1, <1>4, <2>1 DEF Before
  <2>3. IsFiniteSet(Before(S, l)) /\ Cardinality(Before(S, l)) \in Nat
    BY <1>1, <2>2, Smaller
  <2>4. Cardinality(Before(S, k)) <= Cardinality(Before(S, l)) /\ Cardinality(Before(S, k)) \in Nat
    BY <2>2, <2>3, Smaller
  <2>5. QED
    BY <2>1, <2>3, <2>4 DEF FirstOf
<1>5. FirstOf(S, n) \subseteq S
  BY DEF FirstOf
<1>6. QED
  BY <1>2, <1>3, <1>4, <1>5

(* No view of a log holds more events than it has room for.                *)
LEMMA ViewsFit ==
  ASSUME NEW L, WellFormed(L)
  PROVE  tailLines(L, Shown) \subseteq Nat \X Nat /\ Cardinality(tailLines(L, Shown)) <= Shown
<1>1. Shown \in Nat /\ 0 \in Nat
  BY ViewsAssumption
<1>2. Ordered(Lines(L)) /\ Lines(L) \subseteq Nat \X Nat
  BY LinesOrdered, <1>1 DEF Lines, SplitLines, WellFormed
<1>3. CASE Size(L) <= SMALL_FILE_THRESHOLD
  BY <1>1, <1>2, <1>3, AtMost DEF tailLines
<1>4. CASE ~(Size(L) <= SMALL_FILE_THRESHOLD)
  <2> DEFINE P == SplitLines(L, Size(L) - TAIL_CHUNK_BYTES)
  <2>1. Ordered(P) /\ Ordered(Shifted(P))
    BY <1>4, ChunkStarts, LinesOrdered
  <2>2. P \subseteq Nat \X Nat /\ Shifted(P) \subseteq P
    BY <1>4, ChunkStarts DEF SplitLines, Shifted, WellFormed
  <2>3. tailLines(L, Shown) = LastOf(IF Shifted(P) # {} THEN Shifted(P) ELSE P, Shown)
    BY <1>4 DEF tailLines
  <2> HIDE DEF P
  <2>4. QED
    BY <1>1, <2>1, <2>2, <2>3, AtMost
<1>5. QED
  BY <1>3, <1>4

(* Of a log, a beginning.                                                  *)
Begins(K, L) == K \subseteq L /\ \A d \in L, e \in K : d <= e => d \in K

(* Its lines are lines of the log, and the first of them.                  *)
LEMMA LinesBegin ==
  ASSUME NEW L, WellFormed(L), NEW K, WellFormed(K), Begins(K, L)
  PROVE  /\ Lines(K) \subseteq Lines(L)
         /\ \A l \in Lines(K) : Before(Lines(L), l) = Before(Lines(K), l)
<1>1. ASSUME NEW l \in SplitLines(K, 0) PROVE l \in SplitLines(L, 0)
  <2>1. PICK a \in {0} \cup K, b \in K : /\ l = <<a, b>> /\ 0 <= a /\ a + 1 < b
                                         /\ \A c \in K : c <= a \/ b <= c
    BY <1>1, Piece
  <2>2. \A c \in L : c <= a \/ b <= c
    <3>1. SUFFICES ASSUME NEW c \in L PROVE c <= a \/ b <= c
      OBVIOUS
    <3>2. c \in Nat /\ b \in Nat /\ K \subseteq L
      BY DEF WellFormed, Begins
    <3>3. CASE c <= b
      BY <2>1, <3>3 DEF Begins
    <3>4. CASE ~(c <= b)
      BY <3>2, <3>4
    <3>5. QED
      BY <3>3, <3>4
  <2>3. a \in {0} \cup L /\ b \in L
    BY DEF Begins
  <2>4. QED
    BY <2>1, <2>2, <2>3, Piece
<1>2. ASSUME NEW l \in SplitLines(K, 0), NEW k \in SplitLines(L, 0), k[1] < l[1]
      PROVE  k \in SplitLines(K, 0)
  <2>1. l \in SplitLines(L, 0) /\ l[1] \in {0} \cup K /\ l[1] \in Nat
    <3>1. l[1] \in {0} \cup K
      BY <1>2, Piece
    <3>2. QED
      BY <1>1, <1>2, <3>1, PiecesApart
  <2>2. PICK a \in {0} \cup L, b \in L : /\ k = <<a, b>> /\ 0 <= a /\ a + 1 < b
                                         /\ \A c \in L : c <= a \/ b <= c
    BY <1>2, Piece
  <2>3. b <= l[1] /\ a \in Nat /\ b \in Nat /\ a < b
    <3>1. k[2] <= l[1]
      BY <1>2, <2>1, PiecesApart
    <3>2. a \in Nat /\ b \in Nat
      BY DEF WellFormed
    <3>3. QED
      BY <2>2, <3>1, <3>2
  <2>4. l[1] \in K
    BY <2>1, <2>3
  <2>5. b \in K /\ a \in {0} \cup K
    <3>1. a <= l[1]
      BY <2>1, <2>3
    <3>2. QED
      BY <2>3, <2>4, <3>1 DEF Begins
  <2>6. \A c \in K : c <= a \/ b <= c
    BY <2>2 DEF Begins
  <2>7. QED
    BY <2>2, <2>5, <2>6, Piece
<1>3. QED
  BY <1>1, <1>2 DEF Lines, Before

(* A line that is appended leaves a log with no empty line, and what is    *)
(* mirrored of it a beginning of it.                                       *)
LEMMA Appended ==
  ASSUME NEW L, WellFormed(L), NEW length \in Lengths
  PROVE  /\ WellFormed(L \cup {Size(L) + length + 1})
         /\ \A e \in L : e < Size(L) + length + 1
<1> DEFINE b == Size(L) + length + 1
<1>1. length \in Nat /\ length # 0
  BY ViewsAssumption
<1>2. Size(L) \in Nat /\ L \subseteq Nat \ {0, 1} /\ \A e \in L : e <= Size(L)
  BY SizeIs DEF WellFormed
<1>3. b \in Nat \ {0, 1} /\ \A e \in L : e + 1 < b
  BY <1>1, <1>2
<1>4. IsFiniteSet(L \cup {b})
  BY FS_AddElement DEF WellFormed
<1> HIDE DEF b
<1>5. L \cup {b} \subseteq Nat \ {0, 1}
  BY <1>2, <1>3
<1>6. ASSUME NEW d \in L \cup {b}, NEW e \in L \cup {b}, d < e PROVE d + 1 < e
  <2>1. CASE d \in L /\ e \in L
    BY <1>6, <2>1 DEF WellFormed
  <2>2. CASE e = b /\ d # b
    BY <1>3, <2>2
  <2>3. CASE d = b /\ e # b
    <3>1. e \in Nat /\ e + 1 < b /\ b < e /\ b \in Nat
      BY <1>2, <1>3, <1>6, <2>3
    <3>2. QED
      BY <3>1
  <2>4. CASE d = b /\ e = b
    BY <1>3, <1>6, <2>4
  <2>5. QED
    BY <2>1, <2>2, <2>3, <2>4
<1>7. WellFormed(L \cup {b})
  BY <1>4, <1>5, <1>6 DEF WellFormed
<1>8. \A e \in L : e < b
  BY <1>2, <1>3
<1>9. QED
  BY <1>7, <1>8 DEF b

(* A log that nothing is written to.                                       *)
LEMMA NothingWritten == WellFormed({}) /\ Lines({}) = {} /\ Cardinality({}) = 0
<1>1. IsFiniteSet({}) /\ Cardinality({}) = 0
  BY FS_EmptySet
<1>2. WellFormed({})
  BY <1>1 DEF WellFormed
<1>3. ASSUME NEW l \in SplitLines({}, 0) PROVE FALSE
  BY <1>2, PiecesApart
<1>4. QED
  BY <1>1, <1>2, <1>3 DEF Lines

(* What a line that is appended does to the lines of its log.              *)
LEMMA AppendEffect ==
  ASSUME StoreTypeOK, NEW s \in Session, AppendLine(s), NEW t \in Session
  PROVE  WellFormed(log'[t]) /\ Begins(log[t], log'[t])
<1>1. PICK length \in Lengths : log' = [log EXCEPT ![s] = @ \cup {Size(@) + length + 1}]
  BY DEF AppendLine
<1>2. WellFormed(log[t]) /\ log[t] \subseteq Nat
  BY DEF StoreTypeOK, WellFormed
<1>3. CASE t # s
  <2>1. log'[t] = log[t]
    BY <1>1, <1>3 DEF StoreTypeOK
  <2>2. QED
    BY <1>2, <2>1 DEF Begins
<1>4. CASE t = s
  <2> DEFINE b == Size(log[s]) + length + 1
  <2>1. log'[s] = log[s] \cup {b}
    BY <1>1, <1>4 DEF StoreTypeOK
  <2>2. WellFormed(log[s] \cup {b}) /\ \A e \in log[s] : e < b
    BY <1>2, <1>4, Appended
  <2> HIDE DEF b
  <2>3. b \in Nat
    BY <2>2 DEF WellFormed
  <2>4. Begins(log[s], log[s] \cup {b})
    BY <1>2, <1>4, <2>2, <2>3 DEF Begins
  <2>5. QED
    BY <1>4, <2>1, <2>2, <2>4
<1>5. QED
  BY <1>3, <1>4

(* The ids of the rows that a pass inserts are greater than all before.    *)
LEMMA RowTop ==
  ASSUME NEW s, RowsOK(s)
  PROVE  LET top == Size({row[1] : row \in rows[s]})
         IN  top \in Nat /\ \A row \in rows[s] : row[1] <= top
<1> DEFINE ids == {row[1] : row \in rows[s]}
<1>1. ids \in SUBSET Nat /\ IsFiniteSet(rows[s])
  BY DEF RowsOK
<1>2. [row \in rows[s] |-> row[1]] \in Surjection(rows[s], ids)
  BY DEF Surjection
<1>3. \A row \in rows[s] : row[1] \in ids
  OBVIOUS
<1> HIDE DEF ids
<1>4. IsFiniteSet(ids)
  BY <1>1, <1>2, FS_Surjection
<1>5. CASE ids = {}
  BY <1>3, <1>5 DEF Size, ids
<1>6. CASE ids # {}
  <2>1. Max(ids) \in ids /\ \A n \in ids : n <= Max(ids)
    BY <1>1, <1>4, <1>6, MaxOf
  <2>2. Size(ids) = Max(ids)
    BY <1>6 DEF Size
  <2>3. QED
    BY <1>1, <1>3, <2>1, <2>2 DEF ids
<1>7. QED
  BY <1>5, <1>6

(* What a pass inserts comes after all there is, and leaves no gap, though *)
(* it begin again.                                                         *)
LEMMA MirrorEffect ==
  ASSUME StoreTypeOK, NEW s \in Session, MirrorEvents(s)
  PROVE  /\ UNCHANGED <<parent, dirs, plan, log, runs, view>> /\ s \in dirs \cap runs
         /\ DOMAIN rows' = Session /\ \A t \in Session : t # s => rows'[t] = rows[t]
         /\ rows[s] \subseteq rows'[s] /\ RowsOK(s)' /\ Mirrored(s)'
<1>1. PICK from \in {0} \cup {l[2] : l \in Held(s)}, to \in log[s] :
        rows' = [rows EXCEPT ![s] = @ \cup NewRows(s, {l \in Lines(log[s]) : from <= l[1] /\ l[2] <= to})]
  BY DEF MirrorEvents
<1> DEFINE all == Lines(log[s])
           inserted == {l \in all : from <= l[1] /\ l[2] <= to}
           top == Size({row[1] : row \in rows[s]})
           new == {<<top + l[2], l>> : l \in inserted}
<1>2. UNCHANGED <<parent, dirs, plan, log, runs, view>> /\ s \in dirs \cap runs
  BY DEF MirrorEvents, store
<1>3. WellFormed(log[s]) /\ RowsOK(s) /\ Mirrored(s)
  BY <1>2 DEF StoreTypeOK
<1>4. /\ DOMAIN rows' = Session /\ rows'[s] = rows[s] \cup new
      /\ \A t \in Session : t # s => rows'[t] = rows[t]
  BY <1>1 DEF StoreTypeOK, NewRows
<1>5. top \in Nat /\ \A row \in rows[s] : row[1] \in Nat /\ row[1] <= top
  BY <1>3, RowTop DEF RowsOK
<1>6. /\ IsFiniteSet(all) /\ all \subseteq Nat \X Nat
      /\ \A l \in all : l[1] \in Nat /\ l[2] \in Nat /\ l[1] < l[2]
      /\ \A k, l \in all : (k[1] = l[1] \/ k[2] = l[2] => k = l) /\ (k[1] < l[1] => k[2] <= l[1])
  <2>1. IsFiniteSet(all)
    BY <1>3, PiecesFinite DEF Lines
  <2>2. all \subseteq Nat \X Nat
    BY <1>3 DEF Lines, SplitLines, WellFormed
  <2>3. \A k, l \in all : /\ k[1] + 1 < k[2]
                          /\ (k[1] = l[1] \/ k[2] = l[2] => k = l) /\ (k[1] < l[1] => k[2] <= l[1])
    BY <1>3, PiecesApart DEF Lines
  <2> HIDE DEF all
  <2>4. \A l \in all : l[1] \in Nat /\ l[2] \in Nat
    BY <2>2
  <2>5. \A l \in all : l[1] < l[2]
    BY <2>3, <2>4
  <2>6. QED
    BY <2>1, <2>2, <2>3, <2>4, <2>5
<1>7. inserted \subseteq all
  OBVIOUS
<1>8. \A row \in new : row[2] \in inserted /\ row = <<top + row[2][2], row[2]>>
  <2>1. ASSUME NEW row \in new PROVE row[2] \in inserted /\ row = <<top + row[2][2], row[2]>>
    <3> HIDE DEF top, inserted
    <3>1. PICK l \in inserted : row = <<top + l[2], l>>
      OBVIOUS
    <3>2. row[2] = l
      BY <3>1
    <3>3. QED
      BY <3>1, <3>2
  <2> HIDE DEF new
  <2>2. QED
    BY <2>1
<1>9. \A l \in inserted : <<top + l[2], l>> \in new
  OBVIOUS
<1>10. from \in Nat /\ (from = 0 \/ \E row \in rows[s] : row[2] \in all /\ from = row[2][2])
  <2>1. CASE from = 0
    BY <2>1
  <2>2. CASE from # 0
    <3>1. PICK row \in rows[s] : from = row[2][2]
      BY <2>2 DEF Held
    <3>2. row[2] \in all
      BY <1>3, <3>1 DEF Mirrored, Held
    <3>3. QED
      BY <1>6, <3>1, <3>2
  <2>3. QED
    BY <2>1, <2>2
<1>11. \A l \in inserted : from <= l[1] /\ l[2] <= to
  OBVIOUS
<1>12. \A l \in all : from <= l[1] /\ l[2] <= to => l \in inserted
  OBVIOUS
<1>13. to \in Nat
  BY <1>3 DEF WellFormed
<1>14. IsFiniteSet(new)
  <2>1. [l \in inserted |-> <<top + l[2], l>>] \in Surjection(inserted, new)
    BY DEF Surjection
  <2>2. IsFiniteSet(inserted)
    BY <1>6, <1>7, FS_Subset
  <2> HIDE DEF new, inserted
  <2>3. QED
    BY <2>1, <2>2, FS_Surjection
<1> HIDE DEF all, inserted, top, new
<1>15. \A row \in new : row[1] \in Nat /\ row[1] = top + row[2][2] /\ row[1] > top
  <2>1. ASSUME NEW row \in new PROVE row[1] = top + row[2][2] /\ row[2] \in all
    BY <1>7, <1>8
  <2>2. ASSUME NEW row \in new PROVE row[2][2] \in Nat /\ row[2][2] # 0
    BY <1>6, <2>1
  <2>3. QED
    BY <1>5, <2>1, <2>2
<1>16. RowsOK(s)'
  <2>1. IsFiniteSet(rows[s] \cup new)
    BY <1>3, <1>14, FS_Union DEF RowsOK
  <2>2. rows[s] \cup new \subseteq Nat \X (Nat \X Nat)
    <3>1. new \subseteq Nat \X (Nat \X Nat)
      <4>1. ASSUME NEW row \in new PROVE row \in Nat \X (Nat \X Nat)
        <5>1. row[2] \in Nat \X Nat /\ top + row[2][2] \in Nat
          BY <1>6, <1>7, <1>8, <1>15
        <5>2. QED
          BY <1>8, <5>1
      <4>2. QED
        BY <4>1
    <3>2. QED
      BY <1>3, <3>1 DEF RowsOK
  <2>3. ASSUME NEW row \in rows[s] \cup new, NEW other \in rows[s] \cup new, row[1] = other[1]
        PROVE  row = other
    <3>1. CASE row \in new /\ other \in new
      <4>1. row[2] \in all /\ other[2] \in all /\ row[2][2] = other[2][2]
        <5>1. row[2] \in all /\ other[2] \in all
          BY <1>7, <1>8, <3>1
        <5>2. top + row[2][2] = top + other[2][2] /\ row[2][2] \in Nat /\ other[2][2] \in Nat
          BY <1>6, <1>15, <2>3, <3>1, <5>1
        <5>3. QED
          BY <1>5, <5>1, <5>2
      <4>2. row[2] = other[2]
        BY <1>6, <4>1
      <4>3. QED
        BY <1>8, <3>1, <4>2
    <3>2. CASE row \in rows[s] /\ other \in rows[s]
      BY <1>3, <2>3, <3>2 DEF RowsOK
    <3>3. CASE row \in new /\ other \in rows[s]
      BY <1>5, <1>15, <2>3, <3>3
    <3>4. CASE row \in rows[s] /\ other \in new
      BY <1>5, <1>15, <2>3, <3>4
    <3>5. QED
      BY <3>1, <3>2, <3>3, <3>4
  <2>4. QED
    BY <1>4, <2>1, <2>2, <2>3 DEF RowsOK
<1>17. ASSUME NEW row \in rows[s] PROVE row[2] \in all
  BY <1>3 DEF Mirrored, Held, all
<1>18. ASSUME NEW row \in rows[s], NEW l \in all, l[1] < row[2][1]
       PROVE  \E other \in rows[s] : other[1] < row[1] /\ other[2] = l
  BY <1>3, <1>18 DEF Mirrored, Before, all
<1>19. ASSUME NEW row \in new, NEW l \in all, l[1] < row[2][1]
       PROVE  \E other \in rows[s] \cup new : other[1] < row[1] /\ other[2] = l
  <2>1. row[2] \in all /\ row[2] \in inserted /\ from <= row[2][1] /\ row[2][2] <= to
    BY <1>7, <1>8, <1>11
  <2>2. /\ l[1] \in Nat /\ l[2] \in Nat /\ l[1] < l[2] /\ l[2] <= row[2][1]
        /\ row[2][1] \in Nat /\ row[2][2] \in Nat /\ row[2][1] < row[2][2]
    BY <1>6, <1>19, <2>1
  <2>3. CASE from <= l[1]
    <3>1. l \in inserted
      <4>1. l[2] <= to
        BY <1>13, <2>1, <2>2
      <4>2. QED
        BY <1>12, <2>3, <4>1
    <3>2. <<top + l[2], l>> \in new /\ top + l[2] < row[1]
      BY <1>5, <1>9, <1>15, <2>2, <3>1
    <3>3. QED
      BY <3>2
  <2>4. CASE ~(from <= l[1])
    <3>1. PICK first \in rows[s] : first[2] \in all /\ from = first[2][2]
      BY <1>10, <2>2, <2>4
    <3>2. first[1] < row[1] /\ first[1] \in Nat /\ row[1] \in Nat
      BY <1>5, <1>15
    <3>3. CASE l = first[2]
      BY <3>2, <3>3
    <3>4. CASE l # first[2]
      <4>1. l[1] < first[2][1]
        <5>1. /\ first[2][1] \in Nat /\ first[2][2] \in Nat /\ l[1] # first[2][1]
              /\ first[2][1] < l[1] => first[2][2] <= l[1]
          BY <1>6, <3>1, <3>4
        <5>2. QED
          BY <1>10, <2>2, <2>4, <3>1, <5>1
      <4>2. PICK other \in rows[s] : other[1] < first[1] /\ other[2] = l
        BY <1>18, <4>1
      <4>3. other[1] \in Nat
        BY <1>5
      <4>4. QED
        BY <3>2, <4>2, <4>3
    <3>5. QED
      BY <3>3, <3>4
  <2>5. QED
    BY <2>3, <2>4
<1>20. Mirrored(s)'
  <2>1. \A row \in rows'[s] : row[2] \in all
    BY <1>4, <1>7, <1>8, <1>17
  <2>2. ASSUME NEW row \in rows'[s], NEW l \in all, l[1] < row[2][1]
        PROVE  \E other \in rows'[s] : other[1] < row[1] /\ other[2] = l
    BY <1>4, <1>18, <1>19, <2>2
  <2>3. log'[s] = log[s]
    BY <1>2
  <2>4. QED
    BY <2>1, <2>2, <2>3 DEF Mirrored, Held, Before, all
<1>21. QED
  BY <1>2, <1>4, <1>16, <1>20

(* Where the rows of a session stay as they are, so does what is said of   *)
(* them.                                                                   *)
LEMMA MirrorStays ==
  \A s \in Session : rows'[s] = rows[s] =>
    /\ RowsOK(s) => RowsOK(s)'
    /\ log'[s] = log[s] /\ Mirrored(s) => Mirrored(s)'
<1>1. ASSUME NEW s \in Session, rows'[s] = rows[s], RowsOK(s) PROVE RowsOK(s)'
  BY <1>1 DEF RowsOK
<1>2. ASSUME NEW s \in Session, rows'[s] = rows[s], log'[s] = log[s], Mirrored(s) PROVE Mirrored(s)'
  BY <1>2 DEF Mirrored, Held
<1>3. QED
  BY <1>1, <1>2

(* The store and the mirror keep their part of the type invariant, ...     *)
LEMMA StoreStep ==
  ASSUME StoreTypeOK, ViewNext
  PROVE  StoreTypeOK'
<1> USE DEF StoreTypeOK, store, mirror, Change
<1>0. ASSUME UNCHANGED rows, NEW s \in Session
      PROVE  (RowsOK(s) => RowsOK(s)') /\ (log'[s] = log[s] /\ Mirrored(s) => Mirrored(s)')
  BY <1>0, MirrorStays
<1>1. ASSUME NEW s \in Session, MakeDir(s) PROVE StoreTypeOK'
  <2>1. rows[s] = {} /\ UNCHANGED <<parent, plan, log, runs, rows>> /\ dirs' = dirs \cup {s}
    BY <1>1 DEF MakeDir
  <2>2. Mirrored(s)
    BY <2>1 DEF Mirrored, Held
  <2>3. QED
    BY <1>0, <2>1, <2>2
<1>2. ASSUME NEW s \in Session, RemoveDir(s) PROVE StoreTypeOK'
  <2>1. UNCHANGED rows /\ \A t \in Session : t # s => log'[t] = log[t]
    BY <1>2 DEF RemoveDir
  <2>2. \A t \in Session : RowsOK(t)' /\ (t # s /\ t \in dirs => Mirrored(t)')
    BY <1>0, <2>1
  <2>3. QED
    BY <1>2, <2>2, NothingWritten DEF RemoveDir
<1>3. ASSUME NEW s \in Session, WritePlan(s) PROVE StoreTypeOK'
  <2>1. UNCHANGED <<rows, log>>
    BY <1>3 DEF WritePlan
  <2>2. QED
    BY <1>0, <1>3, <2>1, ViewsAssumption DEF WritePlan
<1>4. ASSUME NEW s \in Session, SetStatus(s) PROVE StoreTypeOK'
  <2>1. PICK i \in DOMAIN plan[s], status \in Status : plan' = [plan EXCEPT ![s][i].status = status]
    BY <1>4 DEF SetStatus
  <2>2. plan[s] \in Seq(Task) /\ s \in dirs
    BY <1>4 DEF SetStatus
  <2>3. [plan[s] EXCEPT ![i].status = status] \in Seq(Task)
    <3>1. [plan[s][i] EXCEPT !.status = status] \in Task
      <4>1. plan[s][i] \in Task /\ status \in Counted \cup {"running"}
        BY ONLY <2>2, plan[s] \in Seq(Task), i \in DOMAIN plan[s], status \in Status, ViewsAssumption
      <4>2. PICK task \in Task : task = plan[s][i]
        BY <4>1
      <4>3. QED
        BY ONLY <4>1, <4>2 DEF Task
    <3>2. QED
      BY <2>2, <3>1
  <2>4. /\ DOMAIN plan' = Session /\ plan'[s] \in Seq(Task)
        /\ \A t \in Session : t # s => plan'[t] = plan[t]
    BY <2>1, <2>3
  <2>5. plan' \in [Session -> Seq(Task) \cup {Absent, Broken}]
    BY <2>1, <2>4
  <2>6. UNCHANGED <<rows, log>>
    BY <1>4 DEF SetStatus
  <2>7. QED
    BY <1>0, <1>4, <2>2, <2>4, <2>5, <2>6 DEF SetStatus
<1>5. ASSUME NEW s \in Session, AppendLine(s) PROVE StoreTypeOK'
  <2>1. UNCHANGED <<parent, dirs, plan, runs, rows>> /\ s \in dirs
    BY <1>5 DEF AppendLine
  <2>2. /\ DOMAIN log' = Session
        /\ \A t \in Session : t # s => log'[t] = log[t]
    BY <1>5 DEF AppendLine
  <2>3. \A t \in Session : WellFormed(log'[t]) /\ Begins(log[t], log'[t])
    BY <1>5, AppendEffect
  <2>4. ASSUME NEW t \in dirs PROVE Mirrored(t)'
    <3>1. t \in Session /\ WellFormed(log[t]) /\ Mirrored(t)
      BY <2>4
    <3>2. /\ Lines(log[t]) \subseteq Lines(log'[t])
          /\ \A l \in Lines(log[t]) : Before(Lines(log'[t]), l) = Before(Lines(log[t]), l)
      BY <2>3, <3>1, LinesBegin
    <3>3. \A row \in rows[t] : row[2] \in Lines(log[t])
      BY <3>1 DEF Mirrored, Held
    <3>4. QED
      BY <2>1, <3>1, <3>2, <3>3 DEF Mirrored, Held
  <2>5. QED
    BY <1>0, <2>1, <2>2, <2>3, <2>4
<1>6. ASSUME NEW s \in Session, MirrorRun(s) PROVE StoreTypeOK'
  BY <1>0, <1>6 DEF MirrorRun
<1>7. ASSUME NEW s \in Session, MirrorEvents(s) PROVE StoreTypeOK'
  <2>1. /\ UNCHANGED <<parent, dirs, plan, log, runs>> /\ s \in dirs \cap runs
        /\ DOMAIN rows' = Session /\ \A t \in Session : t # s => rows'[t] = rows[t]
        /\ RowsOK(s)' /\ Mirrored(s)'
    BY <1>7, MirrorEffect
  <2>2. \A t \in Session : t # s => (RowsOK(t) => RowsOK(t)') /\ (Mirrored(t) => Mirrored(t)')
    BY <2>1, MirrorStays
  <2>3. QED
    BY <2>1, <2>2
<1>8. ASSUME NEW s \in Session, ReapEvents(s) PROVE StoreTypeOK'
  <2>1. /\ UNCHANGED <<parent, dirs, plan, log, runs>> /\ s \in runs \ dirs
        /\ DOMAIN rows' = Session /\ rows'[s] = {} /\ \A t \in Session : t # s => rows'[t] = rows[t]
    BY <1>8 DEF ReapEvents
  <2>2. RowsOK(s)'
    BY <2>1, NothingWritten DEF RowsOK, WellFormed
  <2>3. \A t \in Session : t # s => (RowsOK(t) => RowsOK(t)') /\ (Mirrored(t) => Mirrored(t)')
    BY <2>1, MirrorStays
  <2>4. QED
    BY <2>1, <2>2, <2>3
<1>9. ASSUME NEW s \in Session, ReapRun(s) PROVE StoreTypeOK'
  BY <1>0, <1>9 DEF ReapRun
<1>10. ASSUME NEW r \in View, \/ \E s \in Session : Ask(r, s)
                              \/ FindRun(r) \/ ReadEvents(r) PROVE StoreTypeOK'
  <2>1. UNCHANGED <<parent, dirs, plan, log, runs, rows>>
    BY <1>10 DEF Ask, FindRun, ReadEvents, Answer
  <2>2. QED
    BY <1>0, <2>1
<1>11. QED
  BY <1>1, <1>2, <1>3, <1>4, <1>5, <1>6, <1>7, <1>8, <1>9, <1>10 DEF ViewNext

(* ... and the requests theirs: a view has the events of one log, or of    *)
(* one session's rows.                                                     *)
RequestsTypeOK ==
  /\ view \in [View -> ViewType]
  /\ \A r \in View : view[r].pc = "idle" \/ view[r].session \in Session
  /\ \A r \in View : Cardinality(view[r].shown) <= Shown

(* What an answer does to the requests, if it holds no more than it may.   *)
Answered(r, pc, shown) ==
  /\ view' \in [View -> ViewType]
  /\ view'[r].pc = pc /\ view'[r].shown = shown
  /\ view'[r].session = view[r].session /\ view'[r].written = view[r].written
  /\ view'[r].known = view[r].known /\ view'[r].steady = view[r].steady
  /\ \A q \in View : q # r => view'[q] = view[q]

(* (Answer changes one request, and nothing else.)                         *)
LEMMA AnswerEffect ==
  ASSUME RequestsTypeOK, NEW r \in View, NEW pc \in {"idle", "run", "events", "done", "404"},
         NEW shown \in SUBSET (Nat \X Nat), Answer(r, pc, shown)
  PROVE  Answered(r, pc, shown) /\ UNCHANGED <<store, mirror>>
<1>1. PICK x \in ViewType : x = view[r]
  BY DEF RequestsTypeOK
<1>2. view' = [view EXCEPT ![r] = [x EXCEPT !.pc = pc, !.shown = shown]]
  BY <1>1 DEF Answer, RequestsTypeOK
<1>3. PICK y : y = [x EXCEPT !.pc = pc, !.shown = shown]
  OBVIOUS
<1>4. /\ y \in ViewType
      /\ y.pc = pc /\ y.shown = shown /\ y.session = x.session /\ y.written = x.written
      /\ y.known = x.known /\ y.steady = x.steady
  BY <1>3 DEF ViewType
<1>5. view' = [view EXCEPT ![r] = y]
  BY <1>2, <1>3
<1>6. view' \in [View -> ViewType] /\ view'[r] = y /\ \A q \in View : q # r => view'[q] = view[q]
  BY <1>4, <1>5 DEF RequestsTypeOK
<1>7. QED
  BY <1>1, <1>4, <1>6 DEF Answered, Answer

(* The ids of the rows put them in order.                                  *)
LEMMA RowsOrdered ==
  ASSUME NEW s, RowsOK(s)
  PROVE  Ordered(rows[s])
BY DEF RowsOK, Ordered

(* What may be shown.                                                      *)
LEMMA FromLogs ==
  ASSUME StoreTypeOK, NEW s \in Session
  PROVE  /\ FromDisk(s) \in SUBSET (Nat \X Nat) /\ Cardinality(FromDisk(s)) <= Shown
         /\ FromRows(s) \in SUBSET (Nat \X Nat) /\ Cardinality(FromRows(s)) <= Shown
<1>1. WellFormed(log[s]) /\ RowsOK(s)
  BY DEF StoreTypeOK
<1>2. FromDisk(s) \in SUBSET (Nat \X Nat) /\ Cardinality(FromDisk(s)) <= Shown
  BY <1>1, ViewsFit DEF FromDisk
<1> DEFINE first == FirstOf(rows[s], Shown)
<1>3. first \subseteq rows[s] /\ Cardinality(first) <= Shown
  BY <1>1, RowsOrdered, AtMost, ViewsAssumption
<1>4. IsFiniteSet(first) /\ Cardinality(first) \in Nat
  BY <1>1, <1>3, Smaller DEF RowsOK
<1>5. FromRows(s) \in SUBSET (Nat \X Nat)
  BY <1>1, <1>3 DEF FromRows, RowsOK
<1>6. [row \in first |-> row[2]] \in Surjection(first, FromRows(s))
  BY DEF Surjection, FromRows
<1> HIDE DEF first
<1>7. IsFiniteSet(FromRows(s)) /\ Cardinality(FromRows(s)) <= Cardinality(first)
  BY <1>4, <1>6, FS_Surjection
<1>8. Cardinality(FromRows(s)) \in Nat
  BY <1>7, FS_CardinalityType
<1>9. QED
  BY <1>2, <1>3, <1>4, <1>5, <1>7, <1>8, ViewsAssumption

(* What the requests do, case by case.                                     *)
LEMMA FindRunEffect ==
  ASSUME StoreTypeOK, RequestsTypeOK, NEW r \in View, FindRun(r)
  PROVE  LET s == view[r].session
         IN  /\ s \in Session /\ view[r].pc = "run" /\ UNCHANGED <<store, mirror>>
             /\ \/ s \in runs /\ Answered(r, "events", {})
                \/ s \in dirs \ runs /\ Answered(r, "done", FromDisk(s))
                \/ s \notin dirs \cup runs /\ Answered(r, "404", {})
<1> DEFINE s == view[r].session
<1>1. s \in Session /\ view[r].pc = "run"
  BY DEF FindRun, RequestsTypeOK
<1>2. FromDisk(s) \in SUBSET (Nat \X Nat)
  BY <1>1, FromLogs
<1>3. CASE s \in runs /\ Answer(r, "events", {})
  BY <1>1, <1>3, AnswerEffect
<1>4. CASE s \in dirs \ runs /\ Answer(r, "done", FromDisk(s))
  BY <1>1, <1>2, <1>4, AnswerEffect
<1>5. CASE s \notin dirs \cup runs /\ Answer(r, "404", {})
  BY <1>1, <1>5, AnswerEffect
<1>6. QED
  BY <1>3, <1>4, <1>5 DEF FindRun

LEMMA ReadEventsEffect ==
  ASSUME StoreTypeOK, RequestsTypeOK, NEW r \in View, ReadEvents(r)
  PROVE  LET s == view[r].session
         IN  /\ s \in Session /\ view[r].pc = "events" /\ UNCHANGED <<store, mirror>>
             /\ \/ rows[s] = {} /\ Answered(r, "done", FromDisk(s))
                \/ rows[s] # {} /\ Answered(r, "done", FromRows(s))
<1> DEFINE s == view[r].session
<1>1. s \in Session /\ view[r].pc = "events"
  BY DEF ReadEvents, RequestsTypeOK
<1>2. FromDisk(s) \in SUBSET (Nat \X Nat) /\ FromRows(s) \in SUBSET (Nat \X Nat)
  BY <1>1, FromLogs
<1>3. CASE rows[s] = {}
  BY <1>1, <1>2, <1>3, AnswerEffect DEF ReadEvents
<1>4. CASE rows[s] # {}
  BY <1>1, <1>2, <1>4, AnswerEffect DEF ReadEvents
<1>5. QED
  BY <1>3, <1>4

LEMMA AskEffect ==
  ASSUME StoreTypeOK, RequestsTypeOK, NEW r \in View, NEW s \in Session, Ask(r, s)
  PROVE  /\ view' \in [View -> ViewType] /\ UNCHANGED <<store, mirror>>
         /\ view[r].pc = "idle" /\ view'[r].pc = "run" /\ view'[r].session = s /\ view'[r].shown = {}
         /\ view'[r].written = log[s] /\ view'[r].known = Held(s) /\ (view'[r].steady <=> s \in dirs)
         /\ \A q \in View : q # r => view'[q] = view[q]
<1>1. log[s] \subseteq Nat /\ Held(s) \subseteq Nat \X Nat
  BY DEF StoreTypeOK, WellFormed, RowsOK, Held
<1>2. PICK steady \in BOOLEAN : steady <=> s \in dirs
  BY Zenon
<1>3. PICK y : y = [pc |-> "run", session |-> s, shown |-> {}, written |-> log[s],
                    known |-> Held(s), steady |-> steady]
  OBVIOUS
<1>4. /\ y \in ViewType /\ y.pc = "run" /\ y.session = s /\ y.shown = {}
      /\ y.written = log[s] /\ y.known = Held(s) /\ y.steady = steady
  BY <1>1, <1>3 DEF ViewType
<1>5. view' = [view EXCEPT ![r] = y]
  BY <1>2, <1>3 DEF Ask
<1>6. view' \in [View -> ViewType] /\ view'[r] = y /\ \A q \in View : q # r => view'[q] = view[q]
  BY <1>4, <1>5 DEF RequestsTypeOK
<1>7. view[r].pc = "idle" /\ UNCHANGED <<store, mirror>>
  BY DEF Ask
<1>8. QED
  BY <1>2, <1>4, <1>6, <1>7

(* A directory that goes marks the requests that are about it.             *)
LEMMA RemoveDirEffect ==
  ASSUME RequestsTypeOK, NEW s \in Session, RemoveDir(s)
  PROVE  /\ view' \in [View -> ViewType]
         /\ \A r \in View :
              /\ view'[r].pc = view[r].pc /\ view'[r].session = view[r].session
              /\ view'[r].shown = view[r].shown /\ view'[r].written = view[r].written
              /\ view'[r].known = view[r].known
              /\ (view'[r].steady <=> view[r].steady /\ view[r].session # s)
<1>1. ASSUME NEW r \in View
      PROVE  LET y == [view[r] EXCEPT !.steady = @ /\ view[r].session # s]
             IN  /\ y \in ViewType /\ y.pc = view[r].pc /\ y.session = view[r].session
                 /\ y.shown = view[r].shown /\ y.written = view[r].written /\ y.known = view[r].known
                 /\ (y.steady <=> view[r].steady /\ view[r].session # s)
  <2>1. PICK x \in ViewType : x = view[r]
    BY DEF RequestsTypeOK
  <2>2. CASE x.steady /\ x.session # s
    <3>1. (x.steady /\ x.session # s) = TRUE
      BY <2>2
    <3>2. QED
      BY <2>1, <3>1 DEF ViewType
  <2>3. CASE ~(x.steady /\ x.session # s)
    <3>1. (x.steady /\ x.session # s) = FALSE
      BY <2>3
    <3>2. QED
      BY <2>1, <3>1 DEF ViewType
  <2>4. QED
    BY <2>2, <2>3
<1>2. view' = [r \in View |-> [view[r] EXCEPT !.steady = @ /\ view[r].session # s]]
  BY DEF RemoveDir
<1>3. QED
  BY <1>1, <1>2

(* Every step keeps the requests as they should be.                        *)
LEMMA RequestStep ==
  ASSUME StoreTypeOK, RequestsTypeOK, ViewNext
  PROVE  RequestsTypeOK'
<1> USE DEF RequestsTypeOK
<1>1. ASSUME NEW s \in Session,
             MakeDir(s) \/ WritePlan(s) \/ SetStatus(s) \/ AppendLine(s)
             \/ MirrorRun(s) \/ MirrorEvents(s) \/ ReapEvents(s) \/ ReapRun(s)
      PROVE  RequestsTypeOK'
  <2>1. UNCHANGED view
    BY <1>1 DEF MakeDir, WritePlan, SetStatus, AppendLine, MirrorRun, MirrorEvents, ReapEvents, ReapRun
  <2>2. QED
    BY <2>1
<1>2. ASSUME NEW s \in Session, RemoveDir(s) PROVE RequestsTypeOK'
  BY <1>2, RemoveDirEffect
<1>3. Cardinality({}) <= Shown
  BY NothingWritten, ViewsAssumption
<1>4. ASSUME NEW r \in View, NEW s \in Session, Ask(r, s) PROVE RequestsTypeOK'
  <2>1. /\ view' \in [View -> ViewType]
        /\ view'[r].session \in Session /\ Cardinality(view'[r].shown) <= Shown
        /\ \A q \in View : q # r => view'[q] = view[q]
    BY <1>3, <1>4, AskEffect, ZenonT(40)
  <2>2. QED
    BY <2>1
<1>5. ASSUME NEW r \in View, FindRun(r) PROVE RequestsTypeOK'
  <2>1. view[r].session \in Session
    BY <1>5, FindRunEffect
  <2>2. PICK pc, shown : Answered(r, pc, shown) /\ Cardinality(shown) <= Shown
    BY <1>3, <1>5, <2>1, FindRunEffect, FromLogs
  <2>3. QED
    BY <2>1, <2>2 DEF Answered
<1>6. ASSUME NEW r \in View, ReadEvents(r) PROVE RequestsTypeOK'
  <2>1. view[r].session \in Session
    BY <1>6, ReadEventsEffect
  <2>2. PICK shown : Answered(r, "done", shown) /\ Cardinality(shown) <= Shown
    BY <1>6, <2>1, ReadEventsEffect, FromLogs
  <2>3. QED
    BY <2>1, <2>2 DEF Answered
<1>7. QED
  BY <1>1, <1>2, <1>4, <1>5, <1>6 DEF ViewNext

(* The store, the mirror and the requests stay well-formed: the rows of a  *)
(* log are of its lines, before each a row of every line before it however *)
(* often a pass begins again, and only a run that has a row has events     *)
(* (server.js, sync.js).                                                   *)
THEOREM ViewTypeCorrect == ViewSpec => []ViewTypeOK
<1>1. ViewInit => ViewTypeOK
  <2> SUFFICES ASSUME ViewInit PROVE ViewTypeOK
    OBVIOUS
  <2>1. StoreTypeOK
    <3>1. \A s \in Session : WellFormed({}) /\ RowsOK(s) /\ Mirrored(s)
      BY NothingWritten DEF ViewInit, RowsOK, Mirrored, Held, WellFormed
    <3>2. QED
      BY <3>1, ViewsAssumption DEF ViewInit, StoreTypeOK
  <2>2. Idle \in ViewType /\ Idle.pc = "idle" /\ Idle.shown = {}
    BY DEF Idle, ViewType
  <2>3. DOMAIN view = View /\ \A r \in View : view[r] = Idle
    BY DEF ViewInit
  <2>4. view = [r \in View |-> view[r]]
    BY DEF ViewInit
  <2>5. view \in [View -> ViewType]
    BY <2>2, <2>3, <2>4
  <2>6. Cardinality({}) <= Shown
    BY NothingWritten, ViewsAssumption
  <2>7. QED
    BY <2>1, <2>2, <2>3, <2>5, <2>6 DEF ViewTypeOK
<1>2. ViewTypeOK /\ [ViewNext]_viewVars => ViewTypeOK'
  <2>1. ViewTypeOK <=> StoreTypeOK /\ RequestsTypeOK
    BY DEF ViewTypeOK, RequestsTypeOK
  <2>2. CASE UNCHANGED viewVars
    <3>1. UNCHANGED <<parent, dirs, plan, log, runs, rows, view>>
      BY <2>2 DEF viewVars, store, mirror
    <3>2. \A s \in Session : (RowsOK(s) => RowsOK(s)') /\ (Mirrored(s) => Mirrored(s)')
      BY <3>1, MirrorStays
    <3>3. QED
      BY <3>1, <3>2 DEF ViewTypeOK, StoreTypeOK
  <2>3. ASSUME ViewTypeOK, ViewNext PROVE ViewTypeOK'
    <3>1. StoreTypeOK' /\ RequestsTypeOK'
      BY <2>1, <2>3, StoreStep, RequestStep
    <3>2. QED
      BY <3>1 DEF ViewTypeOK, RequestsTypeOK
  <2>4. QED
    BY <2>2, <2>3
<1>3. QED
  BY <1>1, <1>2, PTL DEF ViewSpec

(* Both readers of a log find its last lines, and no line cut short, for   *)
(* logs of any length and chunks of any size (tail.js, _status.mjs).       *)
THEOREM TailsTheorem == ViewSpec => []TailsMatchLog
<1>1. ViewTypeOK => TailsMatchLog
  BY TailsAlwaysMatch, ViewsAssumption DEF ViewTypeOK, StoreTypeOK, TailsMatchLog
<1>2. QED
  BY <1>1, ViewTypeCorrect, PTL

(* A request knows of the log what was mirrored of it, which is mirrored   *)
(* still; and once it is answered, the answer shows what DetailIsCurrent   *)
(* says.                                                                   *)
Shows(s, written, known, shown) ==
  /\ written # {} => shown # {}
  /\ Size(log[s]) <= SMALL_FILE_THRESHOLD =>
       /\ shown \subseteq Lines(log[s])
       /\ Cardinality(log[s]) <= Shown =>
            /\ \A l \in shown : Before(Lines(log[s]), l) \subseteq shown
            /\ Cardinality(rows[s]) <= Shown => known \subseteq shown

Current(r) ==
  LET s == view[r].session
  IN  view[r].pc # "idle" /\ view[r].steady =>
        /\ s \in dirs /\ view[r].pc # "404"
        /\ view[r].known \subseteq Held(s) /\ view[r].written \subseteq log[s]
        /\ view[r].pc = "done" => Shows(s, view[r].written, view[r].known, view[r].shown)

AllCurrent == \A r \in View : Current(r)

(* What is read off the disk when nothing is mirrored, ...                 *)
LEMMA DiskShows ==
  ASSUME StoreTypeOK, NEW s \in Session, rows[s] = {}, NEW written, written \subseteq log[s],
         NEW known, known \subseteq Held(s)
  PROVE  Shows(s, written, known, FromDisk(s))
<1>1. WellFormed(log[s]) /\ Shown \in Nat \ {0}
  BY ViewsAssumption DEF StoreTypeOK
<1>2. written # {} => FromDisk(s) # {}
  BY <1>1, PageTailShows DEF FromDisk
<1>3. ASSUME Size(log[s]) <= SMALL_FILE_THRESHOLD
      PROVE  /\ FromDisk(s) \subseteq Lines(log[s])
             /\ Cardinality(log[s]) <= Shown => FromDisk(s) = Lines(log[s])
  <2>1. FromDisk(s) = LastOf(Lines(log[s]), Shown)
    BY <1>3 DEF FromDisk, tailLines
  <2>2. QED
    BY <1>1, <2>1, FewAreAll DEF LastOf
<1>4. known = {}
  BY DEF Held
<1>5. QED
  BY <1>2, <1>3, <1>4 DEF Shows, Before

(* ... and what the mirror has if it has anything.                         *)
LEMMA RowsShow ==
  ASSUME StoreTypeOK, NEW s \in Session, s \in dirs, rows[s] # {}, NEW written,
         NEW known, known \subseteq Held(s)
  PROVE  Shows(s, written, known, FromRows(s))
<1> DEFINE first == FirstOf(rows[s], Shown)
           all == Lines(log[s])
<1>1. Ordered(rows[s]) /\ Mirrored(s) /\ Shown \in Nat \ {0}
  BY RowsOrdered, ViewsAssumption DEF StoreTypeOK
<1>2. /\ first # {} /\ first \subseteq rows[s]
      /\ Cardinality(rows[s]) <= Shown => first = rows[s]
      /\ \A row \in first, other \in rows[s] : other[1] < row[1] => other \in first
  BY <1>1, FirstRows DEF FirstOf
<1>3. FromRows(s) = {row[2] : row \in first} /\ Held(s) = {row[2] : row \in rows[s]}
  BY DEF FromRows, Held
<1> HIDE DEF first
<1>4. FromRows(s) # {} /\ FromRows(s) \subseteq all
  BY <1>1, <1>2, <1>3 DEF Mirrored
<1>5. ASSUME NEW l \in FromRows(s), NEW k \in Before(all, l) PROVE k \in FromRows(s)
  <2>1. PICK row \in first : row[2] = l
    BY <1>3
  <2>2. PICK other \in rows[s] : other[1] < row[1] /\ other[2] = k
    BY <1>1, <1>2, <2>1 DEF Mirrored
  <2>3. QED
    BY <1>2, <1>3, <2>2
<1>6. Cardinality(rows[s]) <= Shown => known \subseteq FromRows(s)
  BY <1>2, <1>3
<1>7. QED
  BY <1>4, <1>5, <1>6 DEF Shows

(* A log that grows takes nothing from what a view shows of it, ...        *)
LEMMA GrowthShows ==
  ASSUME StoreTypeOK, NEW s \in Session, AppendLine(s), NEW t \in Session,
         NEW written, NEW known, NEW shown, Shows(t, written, known, shown)
  PROVE  Shows(t, written, known, shown)'
<1> DEFINE L == log[t]
           M == log'[t]
<1>1. WellFormed(L) /\ WellFormed(M) /\ Begins(L, M) /\ UNCHANGED rows
  BY AppendEffect DEF StoreTypeOK, AppendLine, Change, mirror
<1> HIDE DEF L, M
<1>2. /\ Lines(L) \subseteq Lines(M)
      /\ \A l \in Lines(L) : Before(Lines(M), l) = Before(Lines(L), l)
  BY <1>1, LinesBegin
<1>3. Cardinality(L) <= Cardinality(M) /\ Cardinality(L) \in Nat /\ Cardinality(M) \in Nat
  BY <1>1, Smaller DEF Begins, WellFormed
<1>4. Size(L) <= Size(M) /\ Size(L) \in Nat /\ Size(M) \in Nat
  <2>1. Size(M) \in Nat /\ Size(L) \in Nat
    BY <1>1, SizeIs
  <2>2. L # {} => Size(L) \in M
    BY <1>1, SizeIs DEF Begins
  <2>3. L # {} => Size(L) <= Size(M)
    BY <1>1, <2>2, SizeIs
  <2>4. L = {} => Size(L) = 0
    BY <1>1, SizeIs
  <2>5. QED
    BY <2>1, <2>3, <2>4
<1>5. Size(M) <= SMALL_FILE_THRESHOLD => Size(L) <= SMALL_FILE_THRESHOLD
  BY <1>4, ChunkAssumption
<1>6. Cardinality(M) <= Shown => Cardinality(L) <= Shown
  BY <1>3, ViewsAssumption
<1>7. QED
  BY <1>1, <1>2, <1>5, <1>6 DEF Shows, L, M

(* ... nor does the mirror that follows it.                                *)
LEMMA MirrorShows ==
  ASSUME StoreTypeOK, NEW s \in Session, MirrorEvents(s), NEW t \in Session,
         NEW written, NEW known, NEW shown, Shows(t, written, known, shown)
  PROVE  Shows(t, written, known, shown)'
<1>1. UNCHANGED log /\ rows[t] \subseteq rows'[t] /\ IsFiniteSet(rows'[t])
  <2>1. /\ UNCHANGED log /\ rows[s] \subseteq rows'[s] /\ RowsOK(s)'
        /\ \A u \in Session : u # s => rows'[u] = rows[u]
    BY MirrorEffect
  <2>2. IsFiniteSet(rows[t])
    BY DEF StoreTypeOK, RowsOK
  <2>3. QED
    BY <2>1, <2>2 DEF RowsOK
<1>2. /\ Cardinality(rows[t]) \in Nat /\ Cardinality(rows'[t]) \in Nat
      /\ Cardinality(rows[t]) <= Cardinality(rows'[t])
  BY <1>1, Smaller
<1>3. Cardinality(rows'[t]) <= Shown => Cardinality(rows[t]) <= Shown
  BY <1>2, ViewsAssumption
<1>4. QED
  BY <1>1, <1>3 DEF Shows

(* Every step keeps the requests current.                                  *)
LEMMA CurrentStep ==
  ASSUME ViewTypeOK, ViewNext, AllCurrent
  PROVE  AllCurrent'
<1>1. StoreTypeOK /\ RequestsTypeOK
  BY DEF ViewTypeOK, RequestsTypeOK
<1>2. ASSUME NEW r \in View, view'[r] = view[r], UNCHANGED <<dirs, log, rows>> PROVE Current(r)'
  BY <1>2 DEF AllCurrent, Current, Shows, Held
<1>3. ASSUME NEW s \in Session, WritePlan(s) \/ SetStatus(s) \/ MirrorRun(s) \/ ReapRun(s)
      PROVE  AllCurrent'
  <2>1. UNCHANGED <<dirs, log, rows, view>>
    BY <1>3 DEF WritePlan, SetStatus, MirrorRun, ReapRun, Change, store, mirror
  <2>2. QED
    BY <1>2, <2>1 DEF AllCurrent
<1>4. ASSUME NEW s \in Session, MakeDir(s) PROVE AllCurrent'
  <2>1. UNCHANGED <<log, rows, view>> /\ dirs \subseteq dirs'
    BY <1>4 DEF MakeDir, Change, mirror
  <2>2. QED
    BY <2>1 DEF AllCurrent, Current, Shows, Held
<1>5. ASSUME NEW s \in Session, RemoveDir(s) PROVE AllCurrent'
  <2>1. /\ dirs' = dirs \ {s} /\ UNCHANGED rows
        /\ \A t \in Session : t # s => log'[t] = log[t]
    BY <1>1, <1>5 DEF RemoveDir, Change, mirror, StoreTypeOK
  <2>2. ASSUME NEW r \in View, view'[r].pc # "idle", view'[r].steady
        PROVE  Current(r)'
    <3>1. /\ view'[r].pc = view[r].pc /\ view'[r].session = view[r].session
          /\ view'[r].shown = view[r].shown /\ view'[r].written = view[r].written
          /\ view'[r].known = view[r].known /\ view[r].steady /\ view[r].session # s
      BY <1>1, <1>5, <2>2, RemoveDirEffect
    <3>2. view[r].session \in Session /\ Current(r)
      BY <1>1, <2>2, <3>1 DEF RequestsTypeOK, AllCurrent
    <3>3. log'[view[r].session] = log[view[r].session]
      BY <2>1, <3>1, <3>2
    <3>4. QED
      BY <2>1, <2>2, <3>1, <3>2, <3>3 DEF Current, Shows, Held
  <2>3. ASSUME NEW r \in View, ~(view'[r].pc # "idle" /\ view'[r].steady)
        PROVE  Current(r)'
    BY <2>3 DEF Current
  <2>4. QED
    BY <2>2, <2>3 DEF AllCurrent
<1>6. ASSUME NEW s \in Session, AppendLine(s) PROVE AllCurrent'
  <2>1. UNCHANGED <<dirs, rows, view>>
    BY <1>6 DEF AppendLine, Change, mirror
  <2>2. ASSUME NEW r \in View, view[r].pc # "idle", view[r].steady PROVE Current(r)'
    <3> DEFINE t == view[r].session
    <3>1. t \in Session /\ Current(r)
      BY <1>1, <2>2 DEF RequestsTypeOK, AllCurrent
    <3>2. log[t] \subseteq log'[t]
      BY <1>1, <1>6, <3>1, AppendEffect DEF Begins
    <3>3. view[r].pc = "done" => Shows(t, view[r].written, view[r].known, view[r].shown)'
      <4>1. SUFFICES ASSUME view[r].pc = "done"
                     PROVE  Shows(t, view[r].written, view[r].known, view[r].shown)'
        OBVIOUS
      <4>2. PICK written, known, shown :
              written = view[r].written /\ known = view[r].known /\ shown = view[r].shown
        OBVIOUS
      <4>3. Shows(t, written, known, shown)
        BY <2>2, <3>1, <4>1, <4>2 DEF Current
      <4>4. PICK u \in Session : u = t
        BY <3>1
      <4>5. Shows(u, written, known, shown)'
        BY <1>1, <1>6, <4>3, <4>4, GrowthShows
      <4>6. QED
        BY <2>1, <4>2, <4>4, <4>5 DEF Shows
    <3>4. QED
      BY <2>1, <2>2, <3>1, <3>2, <3>3 DEF Current, Held
  <2>3. ASSUME NEW r \in View, ~(view[r].pc # "idle" /\ view[r].steady) PROVE Current(r)'
    BY <2>1, <2>3 DEF Current
  <2>4. QED
    BY <2>2, <2>3 DEF AllCurrent
<1>7. ASSUME NEW s \in Session, MirrorEvents(s) PROVE AllCurrent'
  <2>1. UNCHANGED <<dirs, log, view>> /\ \A t \in Session : rows[t] \subseteq rows'[t]
    BY <1>1, <1>7, MirrorEffect
  <2>2. ASSUME NEW r \in View, view[r].pc # "idle", view[r].steady PROVE Current(r)'
    <3> DEFINE t == view[r].session
    <3>1. t \in Session /\ Current(r)
      BY <1>1, <2>2 DEF RequestsTypeOK, AllCurrent
    <3>2. view[r].known \subseteq Held(t)'
      BY <2>1, <2>2, <3>1 DEF Current, Held
    <3>3. view[r].pc = "done" => Shows(t, view[r].written, view[r].known, view[r].shown)'
      <4>1. SUFFICES ASSUME view[r].pc = "done"
                     PROVE  Shows(t, view[r].written, view[r].known, view[r].shown)'
        OBVIOUS
      <4>2. PICK written, known, shown :
              written = view[r].written /\ known = view[r].known /\ shown = view[r].shown
        OBVIOUS
      <4>3. Shows(t, written, known, shown)
        BY <2>2, <3>1, <4>1, <4>2 DEF Current
      <4>4. PICK u \in Session : u = t
        BY <3>1
      <4>5. Shows(u, written, known, shown)'
        BY <1>1, <1>7, <4>3, <4>4, MirrorShows
      <4>6. QED
        BY <2>1, <4>2, <4>4, <4>5 DEF Shows
    <3>4. QED
      BY <2>1, <2>2, <3>1, <3>2, <3>3 DEF Current, Held
  <2>3. ASSUME NEW r \in View, ~(view[r].pc # "idle" /\ view[r].steady) PROVE Current(r)'
    BY <2>1, <2>3 DEF Current
  <2>4. QED
    BY <2>2, <2>3 DEF AllCurrent
<1>8. ASSUME NEW s \in Session, ReapEvents(s) PROVE AllCurrent'
  <2>1. /\ UNCHANGED <<dirs, log, view>> /\ s \notin dirs
        /\ \A t \in Session : t # s => rows'[t] = rows[t]
    BY <1>1, <1>8 DEF ReapEvents, store, StoreTypeOK
  <2>2. ASSUME NEW r \in View, view[r].pc # "idle", view[r].steady PROVE Current(r)'
    <3>1. view[r].session \in Session /\ Current(r)
      BY <1>1, <2>2 DEF RequestsTypeOK, AllCurrent
    <3>2. rows'[view[r].session] = rows[view[r].session]
      BY <2>1, <2>2, <3>1 DEF Current
    <3>3. QED
      BY <2>1, <3>1, <3>2 DEF Current, Shows, Held
  <2>3. ASSUME NEW r \in View, ~(view[r].pc # "idle" /\ view[r].steady) PROVE Current(r)'
    BY <2>1, <2>3 DEF Current
  <2>4. QED
    BY <2>2, <2>3 DEF AllCurrent
<1>9. ASSUME NEW r \in View, NEW s \in Session, Ask(r, s) PROVE AllCurrent'
  <2>1. /\ UNCHANGED <<dirs, log, rows>>
        /\ view'[r].pc = "run" /\ view'[r].session = s
        /\ view'[r].written = log[s] /\ view'[r].known = Held(s) /\ (view'[r].steady <=> s \in dirs)
        /\ \A q \in View : q # r => view'[q] = view[q]
    BY <1>1, <1>9, AskEffect DEF store, mirror
  <2>2. Current(r)'
    BY <2>1 DEF Current, Held
  <2>3. QED
    BY <1>2, <2>1, <2>2 DEF AllCurrent
<1>10. ASSUME NEW r \in View, NEW pc, NEW shown, Answered(r, pc, shown), UNCHANGED <<dirs, log, rows>>,
              view[r].pc \in {"run", "events"},
              view[r].steady => pc # "404"
                /\ (pc = "done" => Shows(view[r].session, view[r].written, view[r].known, shown))
       PROVE  AllCurrent'
  <2>1. Current(r)'
    <3>1. Current(r)
      BY DEF AllCurrent
    <3>2. QED
      BY <1>10, <3>1 DEF Answered, Current, Shows, Held
  <2>2. QED
    BY <1>2, <1>10, <2>1 DEF AllCurrent, Answered
<1>11. ASSUME NEW r \in View, FindRun(r) PROVE AllCurrent'
  <2> DEFINE s == view[r].session
  <2>1. s \in Session /\ view[r].pc = "run" /\ UNCHANGED <<dirs, log, rows>>
    BY <1>1, <1>11, FindRunEffect DEF store, mirror
  <2>2. view[r].steady => s \in dirs /\ view[r].written \subseteq log[s] /\ view[r].known \subseteq Held(s)
    BY <2>1 DEF AllCurrent, Current
  <2>3. CASE s \in runs /\ Answered(r, "events", {})
    BY <1>10, <2>1, <2>3
  <2>4. CASE s \in dirs \ runs /\ Answered(r, "done", FromDisk(s))
    <3>1. rows[s] = {}
      BY <1>1, <2>1, <2>4 DEF StoreTypeOK
    <3>2. view[r].steady => Shows(s, view[r].written, view[r].known, FromDisk(s))
      BY <1>1, <2>1, <2>2, <3>1, DiskShows
    <3>3. QED
      BY <1>10, <2>1, <2>4, <3>2
  <2>5. CASE s \notin dirs \cup runs /\ Answered(r, "404", {})
    BY <1>10, <2>1, <2>2, <2>5
  <2>6. QED
    BY <1>1, <1>11, <2>3, <2>4, <2>5, FindRunEffect
<1>12. ASSUME NEW r \in View, ReadEvents(r) PROVE AllCurrent'
  <2> DEFINE s == view[r].session
  <2>1. s \in Session /\ view[r].pc = "events" /\ UNCHANGED <<dirs, log, rows>>
    BY <1>1, <1>12, ReadEventsEffect DEF store, mirror
  <2>2. view[r].steady => s \in dirs /\ view[r].written \subseteq log[s] /\ view[r].known \subseteq Held(s)
    BY <2>1 DEF AllCurrent, Current
  <2>3. CASE rows[s] = {} /\ Answered(r, "done", FromDisk(s))
    <3>1. view[r].steady => Shows(s, view[r].written, view[r].known, FromDisk(s))
      BY <1>1, <2>1, <2>2, <2>3, DiskShows
    <3>2. QED
      BY <1>10, <2>1, <2>3, <3>1
  <2>4. CASE rows[s] # {} /\ Answered(r, "done", FromRows(s))
    <3>1. view[r].steady => Shows(s, view[r].written, view[r].known, FromRows(s))
      BY <1>1, <2>1, <2>2, <2>4, RowsShow
    <3>2. QED
      BY <1>10, <2>1, <2>4, <3>1
  <2>5. QED
    BY <1>1, <1>12, <2>3, <2>4, ReadEventsEffect
<1>13. QED
  BY <1>3, <1>4, <1>5, <1>6, <1>7, <1>8, <1>9, <1>11, <1>12 DEF ViewNext

(* A session whose directory is there throughout is shown what it wrote,   *)
(* and is never answered with 404, for any number of sessions and requests *)
(* and whenever the mirror overtakes one of them (GET /api/sessions/:id).  *)
THEOREM DetailTheorem == ViewSpec => []DetailIsCurrent
<1>1. ViewInit => AllCurrent
  <2>1. ASSUME ViewInit, NEW r \in View PROVE view[r].pc = "idle"
    BY <2>1 DEF ViewInit, Idle
  <2>2. QED
    BY <2>1 DEF AllCurrent, Current
<1>2. ViewTypeOK /\ AllCurrent /\ [ViewNext]_viewVars => AllCurrent'
  <2>1. CASE UNCHANGED viewVars
    BY <2>1 DEF viewVars, store, mirror, AllCurrent, Current, Shows, Held
  <2>2. QED
    BY <2>1, CurrentStep
<1>3. ViewTypeOK /\ AllCurrent => DetailIsCurrent
  <2>1. SUFFICES ASSUME ViewTypeOK, AllCurrent, NEW r \in View,
                        view[r].pc \in {"done", "404"}, view[r].steady
                 PROVE  /\ view[r].pc = "done"
                        /\ Shows(view[r].session, view[r].written, view[r].known, view[r].shown)
    BY DEF DetailIsCurrent, Shows
  <2>2. QED
    BY <2>1 DEF AllCurrent, Current
<1>4. QED
  BY <1>1, <1>2, <1>3, ViewTypeCorrect, PTL DEF ViewSpec

(* The places and the waves of a plan.                                     *)
LEMMA PlanShape ==
  ASSUME NEW tasks \in Seq(Task)
  PROVE  /\ DOMAIN tasks = 1..Len(tasks) /\ Len(tasks) \in Nat
         /\ \A i \in DOMAIN tasks : tasks[i] \in Task
         /\ ToSet(tasks) = {tasks[i] : i \in DOMAIN tasks}
         /\ OpenWaves(tasks) \in SUBSET Waves(tasks) /\ Waves(tasks) \in SUBSET Nat
         /\ IsFiniteSet(Waves(tasks))
<1>1. DOMAIN tasks = 1..Len(tasks) /\ Len(tasks) \in Nat /\ \A i \in DOMAIN tasks : tasks[i] \in Task
  OBVIOUS
<1>2. ToSet(tasks) = {tasks[i] : i \in DOMAIN tasks}
  BY DEF ToSet
<1>3. OpenWaves(tasks) \in SUBSET Waves(tasks)
  BY DEF OpenWaves, Waves
<1>4. Waves(tasks) \in SUBSET Nat
  BY <1>1, <1>2 DEF Waves, Task
<1>5. IsFiniteSet(Waves(tasks))
  <2> DEFINE all == {tasks[i].wave : i \in DOMAIN tasks}
  <2>1. IsFiniteSet(DOMAIN tasks)
    BY <1>1, FS_Interval
  <2>2. [i \in DOMAIN tasks |-> tasks[i].wave] \in Surjection(DOMAIN tasks, all)
    BY DEF Surjection
  <2>3. IsFiniteSet(all)
    BY <2>1, <2>2, FS_Surjection
  <2>4. Waves(tasks) \in SUBSET all
    BY <1>2 DEF Waves
  <2> HIDE DEF all
  <2>5. QED
    BY <2>3, <2>4, FS_Subset
<1>6. QED
  BY <1>1, <1>2, <1>3, <1>4, <1>5

(* The current wave is the first that is not done, or the last.            *)
LEMMA CurrentWave ==
  ASSUME NEW tasks \in Seq(Task)
  PROVE  LET wave == computeCurrentWave(tasks)
         IN  /\ Waves(tasks) # {} => wave \in Waves(tasks) /\ wave \in Nat
             /\ OpenWaves(tasks) # {} =>
                  wave \in OpenWaves(tasks) /\ \A w \in OpenWaves(tasks) : wave <= w
             /\ Waves(tasks) # {} /\ OpenWaves(tasks) = {} => \A w \in Waves(tasks) : w <= wave
             /\ Waves(tasks) = {} => wave = Null
<1>1. /\ OpenWaves(tasks) \in SUBSET Waves(tasks) /\ Waves(tasks) \in SUBSET Nat
      /\ IsFiniteSet(Waves(tasks))
  BY PlanShape
<1>2. Waves(tasks) # {} => Max(Waves(tasks)) \in Waves(tasks)
                           /\ \A w \in Waves(tasks) : w <= Max(Waves(tasks))
  BY <1>1, MaxOf
<1>3. OpenWaves(tasks) # {} => Min(OpenWaves(tasks)) \in OpenWaves(tasks)
                               /\ \A w \in OpenWaves(tasks) : Min(OpenWaves(tasks)) <= w
  BY <1>1, MinOf
<1>4. QED
  BY <1>1, <1>2, <1>3 DEF computeCurrentWave

(* Of places that are picked the first are shown.                          *)
LEMMA FirstPicked ==
  ASSUME NEW picked \in SUBSET Nat, picked # {}
  PROVE  \E i \in picked : Cardinality({j \in picked : j < i}) < MAX_IN_FLIGHT
<1>1. PICK i \in picked : \A j \in picked : i <= j
  BY LeastNatural
<1>2. {j \in picked : j < i} = {}
  <2>1. \A j \in picked : j \in Nat /\ i \in Nat /\ ~(j < i)
    BY <1>1
  <2>2. QED
    BY <2>1, Zenon
<1>3. Cardinality({j \in picked : j < i}) < MAX_IN_FLIGHT
  BY <1>2, NothingWritten, GraphAssumption
<1>4. QED
  BY <1>3

(* What is in flight is of the current wave, and running if any of it is.  *)
LEMMA InFlight ==
  ASSUME NEW tasks \in Seq(Task), NEW wave
  PROVE  LET seen == computeInFlightTasks(tasks, wave)
             At(status) == {i \in DOMAIN tasks : tasks[i].wave = wave /\ tasks[i].status = status}
         IN  /\ \A i \in seen : /\ i \in DOMAIN tasks /\ tasks[i].wave = wave /\ wave # Null
                                /\ tasks[i].status \in {"running", "pending"}
                                /\ At("running") # {} => tasks[i].status = "running"
             /\ seen = {} /\ wave # Null => At("running") = {} /\ At("pending") = {}
<1> DEFINE At(status) == {i \in DOMAIN tasks : tasks[i].wave = wave /\ tasks[i].status = status}
           picked == IF At("running") # {} THEN At("running") ELSE At("pending")
<1>1. computeInFlightTasks(tasks, wave) =
        IF wave = Null THEN {}
        ELSE {i \in picked : Cardinality({j \in picked : j < i}) < MAX_IN_FLIGHT}
  BY DEF computeInFlightTasks
<1>2. picked \in SUBSET Nat
  <2>1. DOMAIN tasks \subseteq Nat
    BY PlanShape
  <2>2. QED
    BY <2>1
<1>3. picked = {} => At("running") = {} /\ At("pending") = {}
  OBVIOUS
<1>4. \A i \in picked : /\ i \in DOMAIN tasks /\ tasks[i].wave = wave
                        /\ tasks[i].status \in {"running", "pending"}
                        /\ At("running") # {} => tasks[i].status = "running"
  OBVIOUS
<1> HIDE DEF picked
<1>5. wave # Null /\ picked # {} => computeInFlightTasks(tasks, wave) # {}
  BY <1>1, <1>2, FirstPicked
<1>6. QED
  BY <1>1, <1>3, <1>4, <1>5

(* No node's account of its plan contradicts itself.                       *)
LEMMA PlansShown ==
  ASSUME StoreTypeOK, NEW s \in Session
  PROVE  PlanShown(s)
<1> DEFINE tasks == Tasks(s)
           wave == computeCurrentWave(tasks)
           seen == computeInFlightTasks(tasks, wave)
           open == {t \in ToSet(tasks) : t.status # "done" /\ t.wave # Null}
           now  == {t \in open : t.wave = wave}
           shown == {tasks[i] : i \in seen}
<1>1. tasks \in Seq(Task)
  <2>1. <<>> \in Seq(Task)
    OBVIOUS
  <2>2. QED
    BY <2>1 DEF Tasks, StoreTypeOK
<1>2. /\ Node(s).current_wave = wave
      /\ Node(s).in_flight_tasks = seen
      /\ Node(s).task_counts = computeTaskCounts(tasks)
  BY DEF Node
<1> HIDE DEF tasks
<1>3. /\ DOMAIN tasks = 1..Len(tasks) /\ Len(tasks) \in Nat
      /\ \A i \in DOMAIN tasks : tasks[i] \in Task
      /\ ToSet(tasks) = {tasks[i] : i \in DOMAIN tasks}
  BY <1>1, PlanShape
<1>4. \A t \in open : t.wave \in OpenWaves(tasks)
  BY DEF OpenWaves
<1>5. OpenWaves(tasks) # {} => \E t \in open : t.wave = wave
  <2>1. OpenWaves(tasks) # {} => wave \in OpenWaves(tasks)
    BY <1>1, CurrentWave
  <2>2. \A w \in OpenWaves(tasks) : \E t \in open : t.wave = w
    BY DEF OpenWaves
  <2>3. QED
    BY <2>1, <2>2
<1>6. \A t \in open : t.wave >= wave
  <2>1. \A w \in OpenWaves(tasks) : wave <= w
    BY <1>1, CurrentWave
  <2>2. QED
    BY <1>4, <2>1
<1>7. \A i \in seen : /\ i \in DOMAIN tasks /\ tasks[i].wave = wave /\ wave # Null
                      /\ tasks[i].status \in {"running", "pending"}
  BY <1>1, InFlight
<1>8. shown \subseteq now
  BY <1>3, <1>7
<1>9. shown = {} => \A t \in now : t.status \in {"blocked", "failed"}
  <2>1. SUFFICES ASSUME shown = {}, NEW t \in now PROVE t.status \in {"blocked", "failed"}
    OBVIOUS
  <2>2. PICK i \in DOMAIN tasks : tasks[i] = t
    BY <1>3
  <2>3. t.wave = wave /\ wave # Null /\ t.status # "done"
    OBVIOUS
  <2>4. seen = {}
    BY <2>1
  <2>5. t.status # "running" /\ t.status # "pending"
    BY <1>1, <2>2, <2>3, <2>4, InFlight
  <2>6. t.status \in Counted \cup {"running"}
    BY <1>3, <2>2 DEF Task
  <2>7. QED
    BY <2>3, <2>5, <2>6 DEF Counted
<1>10. (\E t \in now : t.status = "running") => \A t \in shown : t.status = "running"
  <2>1. SUFFICES ASSUME NEW t \in now, t.status = "running", NEW i \in seen
                 PROVE  tasks[i].status = "running"
    OBVIOUS
  <2>2. PICK j \in DOMAIN tasks : tasks[j] = t
    BY <1>3
  <2>3. j \in {k \in DOMAIN tasks : tasks[k].wave = wave /\ tasks[k].status = "running"}
    BY <2>1, <2>2
  <2>4. QED
    BY <1>1, <2>1, <2>3, InFlight
<1>11. computeTaskCounts(tasks)["done"] = Len(tasks) => open = {}
  <2> DEFINE done == {i \in DOMAIN tasks : tasks[i].status = "done"}
  <2>1. SUFFICES ASSUME computeTaskCounts(tasks)["done"] = Len(tasks), NEW t \in open PROVE FALSE
    OBVIOUS
  <2>2. Cardinality(done) = Len(tasks)
    BY <2>1 DEF computeTaskCounts, Counted
  <2>3. IsFiniteSet(DOMAIN tasks) /\ Cardinality(DOMAIN tasks) = Len(tasks)
    <3>1. IsFiniteSet(1..Len(tasks))
          /\ Cardinality(1..Len(tasks)) = IF 1 > Len(tasks) THEN 0 ELSE Len(tasks) - 1 + 1
      BY <1>3, FS_Interval
    <3>2. QED
      BY <1>3, <3>1
  <2>4. done \in SUBSET DOMAIN tasks
    OBVIOUS
  <2>5. done = DOMAIN tasks
    <3> HIDE DEF done
    <3> QED BY <2>2, <2>3, <2>4, FS_Subset
  <2>6. QED
    BY <1>3, <2>5
<1>12. open # {} => now # {}
  BY <1>4, <1>5
<1>13. QED
  BY <1>2, <1>6, <1>8, <1>9, <1>10, <1>11, <1>12 DEF PlanShown, tasks

(* Nobody goes back to an earlier wave who undoes nothing.                 *)
LEMMA WavesAdvance ==
  ASSUME NEW old \in Seq(Task), NEW new \in Seq(Task), Waves(old) # {},
         DOMAIN new = DOMAIN old,
         \A i \in DOMAIN old : /\ new[i].wave = old[i].wave
                               /\ old[i].status = "done" => new[i].status = "done"
  PROVE  computeCurrentWave(new) >= computeCurrentWave(old)
<1>1. /\ ToSet(old) = {old[i] : i \in DOMAIN old}
      /\ ToSet(new) = {new[i] : i \in DOMAIN new}
  BY PlanShape
<1>2. Waves(new) = Waves(old)
  BY <1>1 DEF Waves
<1>3. OpenWaves(new) \subseteq OpenWaves(old)
  BY <1>1 DEF OpenWaves
<1>4. /\ computeCurrentWave(new) \in Nat /\ computeCurrentWave(old) \in Nat
      /\ computeCurrentWave(old) \in Waves(old)
  BY <1>2, CurrentWave
<1>5. CASE OpenWaves(new) # {}
  <2>1. computeCurrentWave(new) \in OpenWaves(old)
    BY <1>3, <1>5, CurrentWave
  <2>2. computeCurrentWave(old) <= computeCurrentWave(new)
    BY <2>1, CurrentWave
  <2>3. QED
    BY <1>4, <2>2
<1>6. CASE OpenWaves(new) = {}
  <2>1. \A w \in Waves(old) : w <= computeCurrentWave(new)
    BY <1>2, <1>6, CurrentWave
  <2>2. QED
    BY <1>4, <2>1
<1>7. QED
  BY <1>5, <1>6

(* A node has the tasks of its plan, or none.                              *)
LEMMA TasksAre ==
  ASSUME StoreTypeOK, NEW s \in Session
  PROVE  Tasks(s) \in Seq(Task)
<1>1. <<>> \in Seq(Task)
  OBVIOUS
<1>2. QED
  BY <1>1 DEF Tasks, StoreTypeOK

(* Nodes and edges of two polls in a row fit each other and their plans,   *)
(* for any plans (GET /api/sessions/graph).                                *)
THEOREM GraphTheorem == ViewSpec => GraphFollowsPlan
<1>1. ASSUME ViewTypeOK, ViewTypeOK'
      PROVE  /\ \A e \in Edges(runs, parent) : {e[1], e[2]} \subseteq runs /\ e[1] # e[2]
             /\ \A s \in runs :
                  /\ PlanShown(s)
                  /\ s \in runs' /\ Progresses(s) /\ Waves(Tasks(s)) # {} =>
                       computeCurrentWave(Tasks(s)') >= computeCurrentWave(Tasks(s))
  <2>1. StoreTypeOK /\ StoreTypeOK' /\ runs \subseteq Session
    BY <1>1 DEF ViewTypeOK, StoreTypeOK
  <2>2. \A e \in Edges(runs, parent) : {e[1], e[2]} \subseteq runs /\ e[1] # e[2]
    BY DEF Edges
  <2>3. ASSUME NEW s \in runs PROVE PlanShown(s)
    BY <2>1, PlansShown
  <2>4. ASSUME NEW s \in runs, Progresses(s), Waves(Tasks(s)) # {}
        PROVE  computeCurrentWave(Tasks(s)') >= computeCurrentWave(Tasks(s))
    <3>1. Tasks(s) \in Seq(Task)
      BY <2>1, TasksAre
    <3>2. Tasks(s)' \in Seq(Task)
      <4>1. <<>> \in Seq(Task)
        OBVIOUS
      <4>2. QED
        BY <2>1, <4>1 DEF Tasks, StoreTypeOK
    <3>3. QED
      BY <2>4, <3>1, <3>2, WavesAdvance DEF Progresses
  <2>5. QED
    BY <2>2, <2>3, <2>4
<1>2. QED
  BY <1>1, ViewTypeCorrect, PTL DEF GraphFollowsPlan

=============================================================================
