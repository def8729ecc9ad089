------------------------ MODULE DaemonControl_proofs ------------------------
(***************************************************************************)
(* Theorems about the processes of one configuration directory, for any    *)
(* number of daemons, clients, commands and faults.                        *)
(***************************************************************************)
EXTENDS DaemonControl, TLAPS

ProcRec ==
    [st : {"free", "check", "load", "clear", "run", "took", "handle", "report", "stop"},
     cfg : Configs \cup {NoFile}, on : BOOLEAN,
     req : Requests \cup {"empty", NoFile},
     known : BOOLEAN, ok : BOOLEAN, term : BOOLEAN]

ControlRec == [req : Requests \cup {"empty"}, fds : SUBSET Clients, known : SUBSET Slots]

ResultSet == {Result(req, ok) : req \in Requests, ok \in BOOLEAN}

PCs == {"idle", "spawn", "list", "disable", "stage", "open", "fill", "poll", "ack",
        "session", "result", "done", "finish", "cleanup", "unload", "enable"}
AskingPCs == {"stage", "list", "poll", "open", "fill"}
Asking == {"stop", "install", "apply", "pause", "resume", "reload"}

ClientRec ==
    [op : {"none", "start", "stop", "pause", "resume", "reload", "apply", "install",
           "uninstall"},
     pc : PCs, cfg : Configs \cup {BadConfig, NoFile}, asked : BOOLEAN,
     known : SUBSET Slots, ok : BOOLEAN]

(* TypeOK with the clients, whose commands it leaves untyped: a client that *)
(* writes daemon.control runs a command that asks the daemon something, and *)
(* a daemon reports only on the requests of a client.                       *)
ClientsOK ==
    /\ client \in [Clients -> ClientRec]
    /\ \A c \in Clients : client[c].pc \in AskingPCs => client[c].op \in Asking
    /\ left \in [commands : Int, faults : Int]
ReportsOK == \A s \in Slots : proc[s].st = "report" => proc[s].req \in Requests
TypeInv == TypeOK /\ ClientsOK /\ ReportsOK

LEMMA TypeByRecord ==
    TypeOK <=>
      /\ os \in Platforms /\ root \in BOOLEAN
      /\ unit \in {"absent", "enabled"} /\ svc \in Slots \cup {NoFile}
      /\ proc \in [Slots -> ProcRec]
      /\ control = NoFile \/ control \in ControlRec
      /\ result = NoFile \/ result \in ResultSet
      /\ staged \in Configs \cup {BadConfig, NoFile}
      /\ disk \in Configs
      /\ active \in BOOLEAN
      /\ svc # NoFile => proc[svc].st # "free"
BY DEF TypeOK, ProcRec, ControlRec, ResultSet

LEMMA DeadType == Dead \in ProcRec /\ Dead.st = "free"
BY DEF Dead, ProcRec

LEMMA RestingType == Resting \in ClientRec /\ Resting.pc = "idle" /\ Resting.known = {}
BY DEF Resting, ClientRec, PCs

LEMMA TypeInit == Init => TypeInv
<1> SUFFICES ASSUME Init PROVE TypeInv
  OBVIOUS
<1>1. TypeOK
  BY DeadType, TypeByRecord DEF Init
<1>2. ClientsOK
  <2>1. left \in [commands : Int, faults : Int]
    BY DaemonControlAssumption DEF Init
  <2>2. \A c \in Clients : client[c] = Resting
    BY DEF Init
  <2>3. client \in [Clients -> ClientRec]
    BY RestingType DEF Init
  <2> QED BY <2>1, <2>2, <2>3, RestingType DEF ClientsOK, AskingPCs
<1>3. ReportsOK
  BY DeadType DEF Init, ReportsOK
<1> QED BY <1>1, <1>2, <1>3 DEF TypeInv

-----------------------------------------------------------------------------
(* What the operators on processes and files keep. *)

LEMMA ExitsType ==
  ASSUME TypeInv, NEW S \in SUBSET Slots, Exits(S)
  PROVE  /\ proc' \in [Slots -> ProcRec]
         /\ svc' \in Slots \cup {NoFile}
         /\ svc' # NoFile => proc'[svc'].st # "free"
         /\ control' = NoFile \/ control' \in ControlRec
         /\ ReportsOK'
<1>1. /\ proc \in [Slots -> ProcRec] /\ svc \in Slots \cup {NoFile}
      /\ svc # NoFile => proc[svc].st # "free"
      /\ control = NoFile \/ control \in ControlRec
  BY TypeByRecord DEF TypeInv
<1>2. proc' = [s \in Slots |-> IF s \in S THEN Dead ELSE proc[s]]
  BY DEF Exits, Killed
<1>3. svc' = IF svc \in S THEN NoFile ELSE svc
  BY DEF Exits, Forgotten
<1>4. control' = IF control = NoFile THEN NoFile ELSE [control EXCEPT !.known = @ \ S]
  BY DEF Exits, Without
<1>5. control' = NoFile \/ control' \in ControlRec
  BY <1>1, <1>4 DEF ControlRec
<1>6. ReportsOK'
  BY <1>1, <1>2, DeadType DEF ReportsOK, TypeInv
<1> QED
  BY <1>1, <1>2, <1>3, <1>5, <1>6, DeadType, DaemonControlAssumption

LEMMA WithoutType ==
  ASSUME NEW S \in SUBSET Slots, control = NoFile \/ control \in ControlRec
  PROVE  Without(control, S) = NoFile \/ Without(control, S) \in ControlRec
BY DEF Without, ControlRec

LEMMA ClientsWithoutType ==
  ASSUME ClientsOK, NEW S \in SUBSET Slots
  PROVE  /\ ClientsWithout(S) \in [Clients -> ClientRec]
         /\ \A c \in Clients : /\ ClientsWithout(S)[c].pc = client[c].pc
                               /\ ClientsWithout(S)[c].op = client[c].op
                               /\ ClientsWithout(S)[c].known = client[c].known \ S
BY DEF ClientsOK, ClientsWithout, ClientRec

LEMMA BornType ==
  ASSUME TypeInv, NEW s \in Slots, Born(s)
  PROVE  /\ proc' \in [Slots -> ProcRec]
         /\ proc[s].st = "free" /\ proc'[s].st = "check"
         /\ \A t \in Slots \ {s} : proc'[t] = proc[t]
         /\ ReportsOK'
<1>1. proc \in [Slots -> ProcRec]
  BY TypeByRecord DEF TypeInv
<1>2. [Dead EXCEPT !.st = "check"] \in ProcRec /\ [Dead EXCEPT !.st = "check"].st = "check"
  BY DEF Dead, ProcRec
<1> QED BY <1>1, <1>2 DEF Born, ReportsOK, TypeInv

LEMMA TerminatedType ==
  ASSUME TypeInv, NEW S \in SUBSET Slots
  PROVE  /\ Terminated(S) \in [Slots -> ProcRec]
         /\ \A s \in Slots :
              \/ Terminated(S)[s] = Dead /\ s \in S /\ (s \in Mortal(S) \/ proc[s].st = "free")
              \/ /\ Terminated(S)[s].st = proc[s].st /\ Terminated(S)[s].req = proc[s].req
                 /\ Terminated(S)[s].known = proc[s].known
                 /\ s \notin Mortal(S)
<1>1. proc \in [Slots -> ProcRec]
  BY TypeByRecord DEF TypeInv
<1> QED
  BY <1>1, DeadType DEF Terminated, Mortal, ProcRec

-----------------------------------------------------------------------------
(* One step of a daemon's process s, and what it leaves alone. *)
LEMMA TypeDaemon ==
  ASSUME TypeInv, NEW s \in Slots, DaemonStep(s) \/ ReplaceBinary(s) \/ Crash(s) \/ Supervise(s)
  PROVE  TypeInv'
<1>0. /\ proc \in [Slots -> ProcRec] /\ proc[s] \in ProcRec
  BY TypeByRecord DEF TypeInv
<1>a. /\ svc \in Slots \cup {NoFile}
      /\ control = NoFile \/ control \in ControlRec
      /\ left \in [commands : Int, faults : Int]
      /\ staged \in Configs \cup {BadConfig, NoFile} /\ disk \in Configs /\ active \in BOOLEAN
      /\ result = NoFile \/ result \in ResultSet
  BY TypeByRecord DEF TypeInv, ClientsOK
<1>1. ASSUME Exits({s}), client' = ClientsWithout({s}),
             UNCHANGED <<os, root, unit, result, staged, disk>>,
             active' \in BOOLEAN, left' \in [commands : Int, faults : Int]
      PROVE  TypeInv'
  <2>1. ClientsOK'
    BY <1>1, ClientsWithoutType DEF TypeInv, ClientsOK
  <2> QED BY <1>1, <2>1, ExitsType, TypeByRecord DEF TypeInv, TypeOK, ProcRec, ControlRec, ResultSet
<1>2. ASSUME NEW new \in ProcRec, proc' = [proc EXCEPT ![s] = new], new.st # "free",
             new.st = "report" => new.req \in Requests,
             control' = NoFile \/ control' \in ControlRec,
             UNCHANGED <<os, root, unit, svc, client>>, left' \in [commands : Int, faults : Int],
             active' \in BOOLEAN, staged' \in Configs \cup {BadConfig, NoFile}, disk' \in Configs,
             result' = NoFile \/ result' \in ResultSet
      PROVE  TypeInv'
  <2>1. proc' \in [Slots -> ProcRec] /\ proc'[s] = new /\ \A t \in Slots \ {s} : proc'[t] = proc[t]
    BY <1>0, <1>2
  <2>2. TypeOK'
    BY <1>0, <1>a, <1>2, <2>1, TypeByRecord DEF TypeInv, TypeOK, ProcRec, ControlRec, ResultSet
  <2>3. ReportsOK' /\ ClientsOK'
    BY <1>2, <2>1 DEF TypeInv, ReportsOK, ClientsOK
  <2> QED BY <2>2, <2>3 DEF TypeInv
<1>3. CASE Check(s)
  BY <1>0, <1>a, <1>1, <1>2, <1>3 DEF Check, ProcRec, TypeInv, TypeOK, ClientsOK
<1>4. CASE LoadConfig(s)
  <2> DEFINE new == [proc[s] EXCEPT !.st = "clear", !.cfg = disk, !.on = TRUE]
  <2>1. new \in ProcRec /\ new.st = "clear"
    BY <1>0, <1>a DEF ProcRec
  <2>2. proc' = [proc EXCEPT ![s] = new]
    BY <1>0, <1>4 DEF LoadConfig
  <2> HIDE DEF new
  <2> QED BY <1>0, <1>a, <1>2, <1>4, <2>1, <2>2 DEF LoadConfig, files
<1>5. CASE ClearControl(s)
  <2> DEFINE new == [proc[s] EXCEPT !.st = "run"]
  <2>1. new \in ProcRec /\ new.st = "run"
    BY <1>0 DEF ProcRec
  <2>2. proc' = [proc EXCEPT ![s] = new]
    BY <1>0, <1>5 DEF ClearControl
  <2> HIDE DEF new
  <2> QED BY <1>0, <1>a, <1>2, <1>5, <2>1, <2>2 DEF ClearControl, ControlAtStartup
<1>6. CASE ReadControl(s)
  <2> DEFINE seen == s \in control.known
  <2> DEFINE new == [proc[s] EXCEPT !.st = "took", !.req = control.req, !.known = seen]
  <2>1. proc' = [proc EXCEPT ![s] = new]
    BY <1>0, <1>6 DEF ReadControl
  <2>2. seen \in BOOLEAN
    OBVIOUS
  <2>3. control.req \in Requests \cup {"empty", NoFile}
    BY <1>a, <1>6 DEF ReadControl, ControlRec
  <2> HIDE DEF seen
  <2>4. new \in ProcRec /\ new.st = "took"
    BY <1>0, <2>2, <2>3 DEF ProcRec
  <2> HIDE DEF new
  <2> QED BY <1>0, <1>a, <1>2, <1>6, <2>1, <2>4 DEF ReadControl, files
<1>7. CASE RemoveControl(s)
  <2> DEFINE new == IF proc[s].req = "empty"
                    THEN [proc[s] EXCEPT !.st = "run", !.req = NoFile, !.known = FALSE]
                    ELSE [proc[s] EXCEPT !.st = "handle"]
  <2>1. new \in ProcRec /\ new.st \in {"run", "handle"}
    BY <1>0 DEF ProcRec
  <2>2. proc' = [proc EXCEPT ![s] = new]
    BY <1>0, <1>7 DEF RemoveControl
  <2> HIDE DEF new
  <2> QED BY <1>0, <1>a, <1>2, <1>7, <2>1, <2>2 DEF RemoveControl, ControlAfterTake
<1>8. CASE HandleStop(s)
  <2> DEFINE new == [proc[s] EXCEPT !.st = "stop", !.req = NoFile, !.known = FALSE]
  <2>1. new \in ProcRec /\ new.st = "stop"
    BY <1>0 DEF ProcRec
  <2>2. proc' = [proc EXCEPT ![s] = new]
    BY <1>0, <1>8 DEF HandleStop
  <2> HIDE DEF new
  <2> QED BY <1>0, <1>a, <1>2, <1>8, <2>1, <2>2 DEF HandleStop, files
<1>9. CASE HandleSession(s)
  <2> DEFINE new == [proc[s] EXCEPT !.st = "report", !.ok = TRUE, !.on = (proc[s].req = "resume")]
  <2>1. new \in ProcRec /\ new.st = "report" /\ new.req \in Requests
    BY <1>0, <1>9 DEF HandleSession, ProcRec, Requests
  <2>2. proc' = [proc EXCEPT ![s] = new]
    BY <1>0, <1>9 DEF HandleSession
  <2> HIDE DEF new
  <2> QED BY <1>0, <1>a, <1>2, <1>9, <2>1, <2>2 DEF HandleSession, files
<1>10. CASE HandleReload(s)
  <2> DEFINE good == staged # BadConfig
  <2> DEFINE cfg == IF good THEN disk' ELSE proc[s].cfg
  <2> DEFINE new == [proc[s] EXCEPT !.st = "report", !.ok = good, !.cfg = cfg]
  <2>1. staged' \in Configs \cup {BadConfig, NoFile} /\ disk' \in Configs
    BY <1>a, <1>10 DEF HandleReload, AppliesStaged
  <2>2. proc' = [proc EXCEPT ![s] = new]
    BY <1>0, <1>10 DEF HandleReload
  <2>3. good \in BOOLEAN
    OBVIOUS
  <2>4. cfg \in Configs \cup {NoFile}
    BY <1>0, <2>1 DEF ProcRec
  <2>5. proc[s].req = "reload" /\ "reload" \in Requests
    BY <1>10 DEF HandleReload, Requests
  <2> HIDE DEF good, cfg
  <2>6. new \in ProcRec /\ new.st = "report" /\ new.req \in Requests
    BY <1>0, <2>3, <2>4, <2>5 DEF ProcRec
  <2> HIDE DEF new
  <2> QED BY <1>0, <1>a, <1>2, <1>10, <2>1, <2>2, <2>6 DEF HandleReload
<1>11. CASE Report(s)
  <2> DEFINE new == [proc[s] EXCEPT !.st = "run", !.req = NoFile, !.known = FALSE, !.ok = TRUE]
  <2>1. new \in ProcRec /\ new.st = "run"
    BY <1>0 DEF ProcRec
  <2>2. proc' = [proc EXCEPT ![s] = new]
    BY <1>0, <1>11 DEF Report
  <2>3. active' \in BOOLEAN /\ result' \in ResultSet
    BY <1>0, <1>11 DEF Report, TypeInv, ReportsOK, ProcRec, ResultSet
  <2> HIDE DEF new
  <2> QED BY <1>0, <1>a, <1>2, <1>11, <2>1, <2>2, <2>3 DEF Report
<1>12. CASE LeaveLoop(s) \/ ReplaceBinary(s)
  <2> DEFINE new == [proc[s] EXCEPT !.st = "stop"]
  <2>1. new \in ProcRec /\ new.st = "stop"
    BY <1>0 DEF ProcRec
  <2>2. proc' = [proc EXCEPT ![s] = new]
    BY <1>0, <1>12 DEF LeaveLoop, ReplaceBinary
  <2>3. left' \in [commands : Int, faults : Int]
    BY <1>a, <1>12 DEF LeaveLoop, ReplaceBinary
  <2> HIDE DEF new
  <2> QED BY <1>0, <1>a, <1>2, <1>12, <2>1, <2>2, <2>3 DEF LeaveLoop, ReplaceBinary, files
<1>13. CASE Exit(s) \/ Crash(s)
  <2>1. left' \in [commands : Int, faults : Int]
    BY <1>a, <1>13 DEF Exit, Crash
  <2> QED BY <1>a, <1>1, <1>13, <2>1 DEF Exit, Crash
<1>14. CASE Supervise(s)
  <2>1. Born(s) /\ svc' = s /\ UNCHANGED <<os, root, unit, files, client, left>>
    BY <1>14 DEF Supervise
  <2>2. TypeOK'
    BY <2>1, BornType DEF TypeInv, TypeOK, ProcRec, files
  <2> QED BY <2>1, <2>2, BornType DEF TypeInv, ClientsOK
<1> QED
  BY <1>3, <1>4, <1>5, <1>6, <1>7, <1>8, <1>9, <1>10, <1>11, <1>12, <1>13, <1>14 DEF DaemonStep

-----------------------------------------------------------------------------
(* One step of a client's command. *)

(* What a step of client c has to show, besides what it leaves alone. *)
LEMMA ClientType ==
  ASSUME ClientsOK, NEW c \in Clients, NEW new \in ClientRec,
         client' = [client EXCEPT ![c] = new],
         new.pc \in AskingPCs => new.op \in Asking,
         left' \in [commands : Int, faults : Int]
  PROVE  ClientsOK'
BY DEF ClientsOK

LEMMA GoesType ==
  ASSUME ClientsOK, NEW c \in Clients, NEW pc \in PCs, Goes(c, pc),
         pc \in AskingPCs => client[c].op \in Asking,
         left' \in [commands : Int, faults : Int]
  PROVE  ClientsOK'
<1> DEFINE new == [client[c] EXCEPT !.pc = pc]
<1>1. client' = [client EXCEPT ![c] = new]
  BY DEF Goes, ClientsOK
<1>2. new \in ClientRec /\ new.pc = pc /\ new.op = client[c].op
  BY DEF ClientsOK, ClientRec
<1> HIDE DEF new
<1> QED BY <1>1, <1>2, ClientType

LEMMA EndsType ==
  ASSUME ClientsOK, NEW c \in Clients, Ends(c), left' \in [commands : Int, faults : Int]
  PROVE  ClientsOK'
BY RestingType, ClientType DEF Ends, AskingPCs

LEMMA FilesType ==
  ASSUME TypeInv, UNCHANGED <<os, root, svc, proc>>, ClientsOK',
         unit' \in {"absent", "enabled"},
         control' = NoFile \/ control' \in ControlRec,
         result' = NoFile \/ result' \in ResultSet,
         staged' \in Configs \cup {BadConfig, NoFile}, disk' \in Configs,
         active' \in BOOLEAN
  PROVE  TypeInv'
<1>1. TypeOK'
  BY TypeByRecord DEF TypeInv, TypeOK, ProcRec, ControlRec, ResultSet
<1>2. ReportsOK'
  BY DEF TypeInv, ReportsOK
<1> QED BY <1>1, <1>2 DEF TypeInv

LEMMA BeginType ==
  ASSUME TypeInv, NEW c \in Clients, NEW op \in Commands,
         NEW cfg \in Configs \cup {BadConfig, NoFile}, Begin(c, op, cfg)
  PROVE  ClientsOK'
<1> DEFINE pc == CASE op = "start" -> "spawn"
                   [] op = "stop" -> "list"
                   [] op = "install" /\ os = "windows" -> "list"
                   [] op \in {"install", "uninstall"} -> "disable"
                   [] op = "apply" -> "stage"
                   [] OTHER -> "open"
<1> DEFINE new == [Resting EXCEPT !.op = op, !.cfg = cfg, !.pc = pc]
<1>1. client' = [client EXCEPT ![c] = new]
  BY DEF Begin
<1>2. op \in {"start", "stop", "pause", "resume", "reload", "apply", "install", "uninstall"}
  BY DaemonControlAssumption
<1>3. pc \in PCs /\ (pc \in AskingPCs => op \in Asking)
  BY <1>2 DEF PCs, AskingPCs, Asking
<1> HIDE DEF pc
<1>4. new \in ClientRec /\ new.pc = pc /\ new.op = op
  BY <1>2, <1>3 DEF ClientRec, Resting
<1>5. left' \in [commands : Int, faults : Int]
  BY DEF Begin, TypeInv, ClientsOK
<1> HIDE DEF new
<1> QED BY <1>1, <1>3, <1>4, <1>5, ClientType DEF TypeInv

(* The steps of a command that touch no process. *)
LEMMA TypeQuietStep ==
  ASSUME TypeInv, NEW c \in Clients,
         \/ \E op \in Commands, cfg \in Configs \cup {BadConfig, NoFile} : Begin(c, op, cfg)
         \/ OpenControl(c) \/ FillControl(c) \/ Acked(c) \/ SessionSeen(c)
         \/ ClearResult(c) \/ Stage(c) \/ ResultSeen(c) \/ Done(c)
         \/ Polled(c) \/ Repair(c) \/ CleanUp(c)
         \/ DisableWindowsService(c) \/ UnitGone(c) \/ EnableBusyUnit(c) \/ ClientDies(c)
  PROVE  TypeInv'
<1>1. /\ client \in [Clients -> ClientRec] /\ client[c] \in ClientRec
      /\ client[c].pc \in AskingPCs => client[c].op \in Asking
      /\ left \in [commands : Int, faults : Int] /\ ClientsOK
  BY DEF TypeInv, ClientsOK
<1>2. /\ unit \in {"absent", "enabled"}
      /\ control = NoFile \/ control \in ControlRec
      /\ result = NoFile \/ result \in ResultSet
      /\ staged \in Configs \cup {BadConfig, NoFile} /\ disk \in Configs /\ active \in BOOLEAN
  BY TypeByRecord DEF TypeInv
<1>3. Visible \in SUBSET Slots
  BY DEF Visible
<1>4. CASE \E op \in Commands, cfg \in Configs \cup {BadConfig, NoFile} : Begin(c, op, cfg)
  BY <1>2, <1>4, BeginType, FilesType DEF Begin, files
<1>5. CASE OpenControl(c)
  <2> DEFINE new == [client[c] EXCEPT !.pc = "fill", !.known = Visible]
  <2>1. client' = [client EXCEPT ![c] = new]
    BY <1>1, <1>5 DEF OpenControl
  <2>2. new \in ClientRec /\ new.op = client[c].op
    BY <1>1, <1>3 DEF ClientRec, PCs
  <2>3. control' \in ControlRec
    BY <1>2, <1>3, <1>5 DEF OpenControl, Request, ControlRec
  <2>4. new.op \in Asking
    BY <1>1, <1>5, <2>2 DEF OpenControl, AskingPCs
  <2> HIDE DEF new
  <2> QED BY <1>1, <1>2, <1>5, <2>1, <2>2, <2>3, <2>4, ClientType, FilesType DEF OpenControl
<1>6. CASE FillControl(c)
  <2> DEFINE pc == IF client[c].op \in {"stop", "install"} THEN "poll" ELSE "ack"
  <2> DEFINE new == [client[c] EXCEPT !.known = {}, !.pc = pc]
  <2>1. client' = [client EXCEPT ![c] = new]
    BY <1>1, <1>6 DEF FillControl
  <2>2. pc \in PCs /\ client[c].op \in Asking
    BY <1>1, <1>6 DEF FillControl, PCs, AskingPCs
  <2> HIDE DEF pc
  <2>3. new \in ClientRec /\ new.op \in Asking
    BY <1>1, <2>2 DEF ClientRec
  <2> DEFINE req == IF client[c].op \in {"stop", "install"} THEN "stop"
                    ELSE IF client[c].op = "apply" THEN "reload" ELSE client[c].op
  <2>4. req \in Requests
    BY <1>1, <1>6 DEF FillControl, Requests, Asking, AskingPCs
  <2>5. control' = IF control # NoFile /\ c \in control.fds
                   THEN Request(req, control.fds \ {c}, client[c].known) ELSE control
    BY <1>6 DEF FillControl
  <2> HIDE DEF req
  <2>6. control' = NoFile \/ control' \in ControlRec
    BY <1>1, <1>2, <2>4, <2>5 DEF Request, ControlRec, ClientRec
  <2> HIDE DEF new
  <2> QED BY <1>1, <1>2, <1>6, <2>1, <2>2, <2>3, <2>6, ClientType, FilesType DEF FillControl
<1>7. CASE Acked(c)
  <2>1. Ends(c) \/ Goes(c, "result") \/ Goes(c, "session")
    BY <1>7 DEF Acked
  <2>2. ClientsOK'
    BY <1>1, <1>7, <2>1, EndsType, GoesType DEF Acked, PCs, AskingPCs
  <2> QED BY <1>2, <1>7, <2>2, FilesType DEF Acked, files
<1>8. CASE SessionSeen(c)
  <2> DEFINE ok == active = (client[c].op = "resume")
  <2> DEFINE new == [client[c] EXCEPT !.pc = "done", !.ok = ok]
  <2>1. client' = [client EXCEPT ![c] = new]
    BY <1>1, <1>8 DEF SessionSeen
  <2>2. ok \in BOOLEAN
    OBVIOUS
  <2> HIDE DEF ok
  <2>3. new \in ClientRec /\ new.pc = "done"
    BY <1>1, <2>2 DEF ClientRec, PCs
  <2> HIDE DEF new
  <2> QED BY <1>1, <1>2, <1>8, <2>1, <2>3, ClientType, FilesType DEF SessionSeen, files, AskingPCs
<1>9. CASE ClearResult(c)
  <2> DEFINE new == [client[c] EXCEPT !.asked = TRUE]
  <2>1. client' = [client EXCEPT ![c] = new]
    BY <1>1, <1>9 DEF ClearResult
  <2>2. new \in ClientRec /\ new.pc = client[c].pc /\ new.op = client[c].op
    BY <1>1 DEF ClientRec
  <2> HIDE DEF new
  <2> QED BY <1>1, <1>2, <1>9, <2>1, <2>2, ClientType, FilesType DEF ClearResult
<1>10. CASE Stage(c)
  <2> DEFINE new == [client[c] EXCEPT !.pc = "open"]
  <2>1. client' = [client EXCEPT ![c] = new]
    BY <1>1, <1>10 DEF Stage, Goes
  <2>2. new \in ClientRec /\ new.op = client[c].op
    BY <1>1 DEF ClientRec, PCs
  <2>3. staged' \in Configs \cup {BadConfig, NoFile}
    BY <1>1, <1>10 DEF Stage, ClientRec
  <2>4. client[c].op \in Asking
    BY <1>1, <1>10 DEF Stage, AskingPCs
  <2> HIDE DEF new
  <2> QED BY <1>1, <1>2, <1>10, <2>1, <2>2, <2>3, <2>4, ClientType, FilesType DEF Stage
<1>11. CASE ResultSeen(c)
  <2>1. ClientsOK'
    <3>1. CASE Ends(c)
      BY <1>1, <1>11, <3>1, EndsType DEF ResultSeen
    <3>2. CASE ~Ends(c)
      <4> DEFINE new == [client[c] EXCEPT !.pc = "done", !.ok = result.ok]
      <4>1. client' = [client EXCEPT ![c] = new] /\ result # NoFile
        BY <1>1, <1>11, <3>2 DEF ResultSeen
      <4>2. result.ok \in BOOLEAN
        BY <1>2, <4>1 DEF ResultSet, Result
      <4>3. new \in ClientRec /\ new.pc = "done"
        BY <1>1, <4>2 DEF ClientRec, PCs
      <4> HIDE DEF new
      <4> QED BY <1>1, <1>11, <4>1, <4>3, ClientType DEF ResultSeen, AskingPCs
    <3> QED BY <3>1, <3>2
  <2>2. result' = NoFile \/ result' \in ResultSet
    BY <1>2, <1>11 DEF ResultSeen
  <2> QED BY <1>2, <1>11, <2>1, <2>2, FilesType DEF ResultSeen
<1>12. CASE Done(c) \/ ClientDies(c)
  <2>1. left' \in [commands : Int, faults : Int]
    BY <1>1, <1>12 DEF Done, ClientDies
  <2>2. ClientsOK'
    BY <1>1, <1>12, <2>1, EndsType DEF Done, ClientDies
  <2> QED BY <1>2, <1>12, <2>2, FilesType DEF Done, ClientDies, files
<1>13. CASE Polled(c) \/ Repair(c)
  <2>1. ClientsOK'
    BY <1>1, <1>13, GoesType DEF Polled, Repair, PCs, AskingPCs
  <2> QED BY <1>2, <1>13, <2>1, FilesType DEF Polled, Repair, files
<1>14. CASE CleanUp(c) \/ UnitGone(c)
  <2>1. \/ Ends(c) \/ Goes(c, "enable") \/ Goes(c, "disable")
        \/ Goes(c, "list") /\ client[c].op = "install"
    BY <1>14 DEF CleanUp, UnitGone
  <2>2. ClientsOK'
    BY <1>1, <1>14, <2>1, EndsType, GoesType DEF CleanUp, UnitGone, PCs, AskingPCs, Asking
  <2> QED BY <1>2, <1>14, <2>2, FilesType DEF CleanUp, UnitGone, files
<1>15. CASE DisableWindowsService(c)
  <2>1. ClientsOK'
    BY <1>1, <1>15, GoesType DEF DisableWindowsService, PCs, AskingPCs
  <2>2. control' = NoFile \/ control' \in ControlRec
    BY <1>2, <1>3, <1>15 DEF DisableWindowsService, ServiceStopRequest, Request, ControlRec, Requests
  <2> QED BY <1>2, <1>15, <2>1, <2>2, FilesType DEF DisableWindowsService
<1>16. CASE EnableBusyUnit(c)
  <2>1. ClientsOK'
    BY <1>1, <1>16, EndsType DEF EnableBusyUnit
  <2> QED BY <1>2, <1>16, <2>1, FilesType DEF EnableBusyUnit, files
<1> QED
  BY <1>4, <1>5, <1>6, <1>7, <1>8, <1>9, <1>10, <1>11, <1>12, <1>13, <1>14, <1>15, <1>16

(* The steps of a command that create, signal or kill processes. *)
LEMMA TypeProcessStep ==
  ASSUME TypeInv, NEW c \in Clients,
         \/ \E s \in Slots : \/ Spawn(c, s) \/ EnableUnit(c, s)
                             \/ \E cfg \in Configs : ApplyViaService(c, s, cfg)
         \/ ListAndSignal(c) \/ (\E force \in BOOLEAN : PollTimesOut(c, force))
         \/ DisableUnixUnit(c)
  PROVE  TypeInv'
<1>1. /\ client \in [Clients -> ClientRec] /\ client[c] \in ClientRec
      /\ client[c].pc \in AskingPCs => client[c].op \in Asking
      /\ left \in [commands : Int, faults : Int] /\ ClientsOK
  BY DEF TypeInv, ClientsOK
<1>2. /\ os \in Platforms /\ root \in BOOLEAN
      /\ unit \in {"absent", "enabled"} /\ svc \in Slots \cup {NoFile}
      /\ control = NoFile \/ control \in ControlRec
      /\ result = NoFile \/ result \in ResultSet
      /\ staged \in Configs \cup {BadConfig, NoFile} /\ disk \in Configs /\ active \in BOOLEAN
      /\ proc \in [Slots -> ProcRec] /\ (svc # NoFile => proc[svc].st # "free")
  BY TypeByRecord DEF TypeInv
<1>3. ASSUME UNCHANGED <<os, root, result, staged, active>>, ClientsOK', disk' \in Configs,
             unit' \in {"absent", "enabled"}, proc' \in [Slots -> ProcRec], ReportsOK',
             svc' \in Slots \cup {NoFile}, svc' # NoFile => proc'[svc'].st # "free",
             control' = NoFile \/ control' \in ControlRec
      PROVE  TypeInv'
  <2>1. TypeOK'
    BY <1>2, <1>3 DEF TypeOK, ProcRec, ControlRec, ResultSet
  <2> QED BY <1>3, <2>1 DEF TypeInv
<1>4. ASSUME NEW s \in Slots, Born(s), svc' \in {svc, s}
      PROVE  /\ proc' \in [Slots -> ProcRec] /\ ReportsOK'
             /\ svc' \in Slots \cup {NoFile} /\ (svc' # NoFile => proc'[svc'].st # "free")
  BY <1>2, <1>4, BornType
<1>5. ASSUME NEW s \in Slots, Spawn(c, s) PROVE TypeInv'
  <2>1. ClientsOK'
    BY <1>1, <1>5, EndsType DEF Spawn
  <2>2. svc' = svc
    BY <1>5 DEF Spawn
  <2>3. CASE Born(s)
    BY <1>2, <1>3, <1>4, <1>5, <2>1, <2>2, <2>3 DEF Spawn, files
  <2>4. CASE proc' = proc
    <3>1. ReportsOK'
      BY <2>4 DEF TypeInv, ReportsOK
    <3> QED BY <1>2, <1>3, <1>5, <2>1, <2>2, <2>4, <3>1 DEF Spawn, files
  <2> QED BY <1>5, <2>3, <2>4 DEF Spawn
<1>6. ASSUME NEW s \in Slots, EnableUnit(c, s) PROVE TypeInv'
  <2>1. ClientsOK'
    BY <1>1, <1>6, EndsType DEF EnableUnit
  <2> QED BY <1>2, <1>3, <1>4, <1>6, <2>1 DEF EnableUnit, files
<1>7. ASSUME NEW s \in Slots, NEW cfg \in Configs, ApplyViaService(c, s, cfg) PROVE TypeInv'
  <2>1. ClientsOK'
    BY <1>1, <1>7 DEF ApplyViaService, ClientsOK
  <2> QED BY <1>2, <1>3, <1>4, <1>7, <2>1 DEF ApplyViaService
<1>8. ASSUME NEW S \in SUBSET Slots, proc' = Terminated(S), Forgotten(Mortal(S)),
             control' = Without(control, Mortal(S))
      PROVE  /\ proc' \in [Slots -> ProcRec] /\ ReportsOK'
             /\ svc' \in Slots \cup {NoFile} /\ (svc' # NoFile => proc'[svc'].st # "free")
             /\ control' = NoFile \/ control' \in ControlRec
  <2>1. Mortal(S) \in SUBSET Slots
    BY DEF Mortal
  <2>2. proc' \in [Slots -> ProcRec] /\ ReportsOK'
    BY <1>8, TerminatedType, DeadType DEF TypeInv, ReportsOK
  <2>3. svc' \in Slots \cup {NoFile} /\ (svc' # NoFile => proc'[svc'].st # "free")
    BY <1>2, <1>8, TerminatedType, DaemonControlAssumption DEF Forgotten
  <2> QED BY <1>2, <1>8, <2>1, <2>2, <2>3, WithoutType
<1>9. ASSUME NEW S \in SUBSET Slots, NEW pc \in PCs,
             pc \in AskingPCs => client[c].op \in Asking,
             client' = [ClientsWithout(S) EXCEPT ![c].pc = pc], left' = left
      PROVE  ClientsOK'
  <2>1. \A d \in Clients : client'[d] \in ClientRec /\ client'[d].op = client[d].op
                           /\ client'[d].pc = IF d = c THEN pc ELSE client[d].pc
    <3> DEFINE new == [ClientsWithout(S)[c] EXCEPT !.pc = pc]
    <3>1. new \in ClientRec /\ new.op = client[c].op /\ new.pc = pc
      BY <1>1, <1>9, ClientsWithoutType DEF ClientRec
    <3>2. client' = [ClientsWithout(S) EXCEPT ![c] = new]
      BY <1>9
    <3> HIDE DEF new
    <3> QED BY <1>1, <1>9, <3>1, <3>2, ClientsWithoutType
  <2> QED BY <1>1, <1>9, <2>1, ClientsWithoutType DEF ClientsOK
<1>10. CASE ListAndSignal(c)
  <2>0. Visible \in SUBSET Slots /\ Mortal(Visible) \in SUBSET Slots
    BY DEF Visible, Mortal
  <2>1. CASE Goes(c, "finish") /\ UNCHANGED <<proc, svc, control>>
    <3>1. ClientsOK'
      BY <1>1, <1>10, <2>1, GoesType DEF ListAndSignal, PCs, AskingPCs
    <3>2. ReportsOK'
      BY <2>1 DEF TypeInv, ReportsOK
    <3> QED BY <1>2, <1>3, <1>10, <2>1, <3>1, <3>2 DEF ListAndSignal
  <2>2. CASE client' = [client EXCEPT ![c] = [client[c] EXCEPT !.pc = "open", !.asked = TRUE]]
             /\ UNCHANGED <<proc, svc, control>>
    <3> DEFINE new == [client[c] EXCEPT !.pc = "open", !.asked = TRUE]
    <3>1. new \in ClientRec /\ new.op \in Asking
      BY <1>1, <1>10 DEF ClientRec, PCs, ListAndSignal, AskingPCs
    <3>2. client' = [client EXCEPT ![c] = new] /\ left' = left
      BY <1>10, <2>2 DEF ListAndSignal
    <3> HIDE DEF new
    <3>3. ClientsOK'
      BY <1>1, <3>1, <3>2, ClientType
    <3>4. ReportsOK'
      BY <2>2 DEF TypeInv, ReportsOK
    <3> QED BY <1>2, <1>3, <1>10, <2>2, <3>3, <3>4 DEF ListAndSignal
  <2>3. CASE /\ proc' = Terminated(Visible) /\ Forgotten(Mortal(Visible))
             /\ control' = Without(control, Mortal(Visible))
             /\ client' = [ClientsWithout(Mortal(Visible)) EXCEPT ![c].pc = "poll"]
    <3>1. client[c].op \in Asking /\ left' = left
      BY <1>1, <1>10 DEF ListAndSignal, AskingPCs
    <3>2. ClientsOK'
      BY <1>9, <2>0, <2>3, <3>1 DEF PCs
    <3> QED BY <1>2, <1>3, <1>8, <1>10, <2>0, <2>3, <3>2 DEF ListAndSignal
  <2> QED BY <1>1, <1>10, <2>1, <2>2, <2>3 DEF ListAndSignal, Candidates
<1>11. ASSUME NEW force \in BOOLEAN, PollTimesOut(c, force) PROVE TypeInv'
  <2> DEFINE K == IF force /\ root /\ ~client[c].ok THEN Candidates ELSE {}
  <2>1. K \in SUBSET Slots
    BY DEF Candidates, Visible
  <2>2. Exits(K) /\ UNCHANGED <<os, root, unit, result, staged, disk, active, left>>
    BY <1>11 DEF PollTimesOut
  <2>3. client' = [ClientsWithout(K) EXCEPT ![c] =
            IF @.asked THEN [@ EXCEPT !.pc = "open", !.asked = FALSE, !.ok = TRUE]
            ELSE IF K = Candidates THEN [@ EXCEPT !.pc = "finish"]
            ELSE Resting]
    BY <1>11 DEF PollTimesOut
  <2> HIDE DEF K
  <2>4. client[c].op \in Asking
    BY <1>1, <1>11 DEF PollTimesOut, AskingPCs
  <2> DEFINE old == ClientsWithout(K)[c]
  <2>5. old \in ClientRec /\ old.op \in Asking
    BY <1>1, <2>1, <2>4, ClientsWithoutType
  <2> HIDE DEF old
  <2>6. \A d \in Clients : client'[d] \in ClientRec /\ (client'[d].pc \in AskingPCs => client'[d].op \in Asking)
    <3>1. client'[c] = IF old.asked THEN [old EXCEPT !.pc = "open", !.asked = FALSE, !.ok = TRUE]
                       ELSE IF K = Candidates THEN [old EXCEPT !.pc = "finish"] ELSE Resting
      BY <1>1, <2>1, <2>3, ClientsWithoutType DEF old
    <3>2. client'[c] \in ClientRec /\ (client'[c].pc \in AskingPCs => client'[c].op \in Asking)
      <4>1. ASSUME NEW n \in ClientRec, n.op \in Asking
            PROVE  /\ [n EXCEPT !.pc = "open", !.asked = FALSE, !.ok = TRUE] \in ClientRec
                   /\ [n EXCEPT !.pc = "open", !.asked = FALSE, !.ok = TRUE].op \in Asking
                   /\ [n EXCEPT !.pc = "finish"] \in ClientRec
                   /\ [n EXCEPT !.pc = "finish"].op \in Asking
        BY <4>1 DEF ClientRec, PCs
      <4>2. "idle" \notin AskingPCs
        BY DEF AskingPCs
      <4> DEFINE a == [old EXCEPT !.pc = "open", !.asked = FALSE, !.ok = TRUE]
                 b == [old EXCEPT !.pc = "finish"]
      <4>3. a \in ClientRec /\ a.op \in Asking /\ b \in ClientRec /\ b.op \in Asking
        BY <2>5, <4>1
      <4>4. client'[c] = IF old.asked THEN a ELSE IF K = Candidates THEN b ELSE Resting
        BY <3>1
      <4> HIDE DEF a, b
      <4> QED BY <4>2, <4>3, <4>4, RestingType
    <3>3. \A d \in Clients \ {c} : client'[d] = ClientsWithout(K)[d]
      BY <1>1, <2>1, <2>3, ClientsWithoutType
    <3> QED BY <1>1, <2>1, <3>2, <3>3, ClientsWithoutType DEF ClientsOK
  <2>7. client' \in [Clients -> ClientRec]
    BY <1>1, <2>1, <2>3, <2>6, ClientsWithoutType
  <2>8. ClientsOK'
    BY <1>1, <2>2, <2>6, <2>7 DEF ClientsOK
  <2> QED BY <1>2, <1>3, <2>1, <2>2, <2>8, ExitsType
<1>12. CASE DisableUnixUnit(c)
  <2> DEFINE S == {svc} \cap Slots
  <2>1. /\ proc' = Terminated(S) /\ Forgotten(Mortal(S)) /\ control' = Without(control, Mortal(S))
        /\ client' = [ClientsWithout(Mortal(S)) EXCEPT ![c].pc = "unload"]
        /\ unit' = "absent" /\ UNCHANGED <<os, root, result, staged, disk, active, left>>
    BY <1>12 DEF DisableUnixUnit
  <2>2. S \in SUBSET Slots /\ Mortal(S) \in SUBSET Slots
    BY DEF Mortal
  <2> HIDE DEF S
  <2>3. ClientsOK'
    BY <1>9, <2>1, <2>2 DEF PCs, AskingPCs
  <2> QED BY <1>2, <1>3, <1>8, <2>1, <2>2, <2>3
<1> QED
  BY <1>5, <1>6, <1>7, <1>10, <1>11, <1>12

LEMMA TypeStep == TypeInv /\ [Next]_vars => TypeInv'
<1> SUFFICES ASSUME TypeInv, [Next]_vars PROVE TypeInv'
  OBVIOUS
<1>1. ASSUME NEW s \in Slots, DaemonStep(s) \/ ReplaceBinary(s) \/ Crash(s) \/ Supervise(s)
      PROVE  TypeInv'
  BY <1>1, TypeDaemon
<1>2. ASSUME NEW c \in Clients,
             \/ ClientStep(c) \/ ClientDies(c)
             \/ \E op \in Commands, cfg \in Configs \cup {BadConfig, NoFile} : Begin(c, op, cfg)
      PROVE  TypeInv'
  BY <1>2, TypeQuietStep, TypeProcessStep DEF ClientStep
<1>3. CASE UNCHANGED vars
  BY <1>3 DEF vars, TypeInv, TypeOK, ClientsOK, ReportsOK
<1> QED BY <1>1, <1>2, <1>3 DEF Next

(***************************************************************************)
(* In every behaviour the state has its type, and the service's process is *)
(* one that runs: whatever ends a process (a signal, a crash, a --force)   *)
(* is noticed by the service manager.                                      *)
(***************************************************************************)
THEOREM TypeCorrect == Spec => []TypeOK
<1>1. TypeInv => TypeOK
  BY DEF TypeInv
<1> QED BY <1>1, TypeInit, TypeStep, PTL DEF Spec

-----------------------------------------------------------------------------
(* A second daemon never passes its check: only Check adds a daemon, and it  *)
(* does so when nothing else is in the process list.                         *)
LEMMA DaemonsGrow ==
  ASSUME TypeInv, Next
  PROVE  Daemons' \subseteq Daemons \/ \E s \in Slots : Daemons' \subseteq {s}
<1>0. proc \in [Slots -> ProcRec]
  BY TypeByRecord DEF TypeInv
<1>1. ASSUME NEW s \in Slots, proc[s].st \notin {"free", "check"},
             \A t \in Slots \ {s} : proc'[t] = proc[t]
      PROVE  Daemons' \subseteq Daemons
  BY <1>1 DEF Daemons
<1>2. ASSUME NEW S \in SUBSET Slots, Exits(S) PROVE Daemons' \subseteq Daemons
  <2>1. \A t \in Slots : proc'[t] = IF t \in S THEN Dead ELSE proc[t]
    BY <1>2 DEF Exits, Killed
  <2> QED BY <2>1, DeadType DEF Daemons
<1>3. ASSUME NEW s \in Slots, Born(s) PROVE Daemons' \subseteq Daemons
  BY <1>3, BornType DEF Daemons
<1>4. ASSUME NEW S \in SUBSET Slots, proc' = Terminated(S) PROVE Daemons' \subseteq Daemons
  <2>1. \A t \in Slots : proc'[t] = Dead \/ proc'[t].st = proc[t].st
    BY <1>4, TerminatedType
  <2> QED BY <2>1, DeadType DEF Daemons
<1>5. ASSUME proc' = proc PROVE Daemons' \subseteq Daemons
  BY <1>5 DEF Daemons
<1>6. ASSUME NEW s \in Slots, DaemonStep(s) \/ ReplaceBinary(s) \/ Crash(s) \/ Supervise(s)
      PROVE  Daemons' \subseteq Daemons \/ Daemons' \subseteq {s}
  <2>1. CASE Check(s)
    <3>1. CASE NoOtherDaemon(s)
      <4>1. Visible = {s} /\ \A t \in Slots \ {s} : proc'[t] = proc[t]
        BY <1>0, <2>1, <3>1 DEF Check, NoOtherDaemon
      <4> QED BY <4>1 DEF Visible, Daemons
    <3>2. CASE Exits({s})
      BY <1>2, <3>2
    <3> QED BY <2>1, <3>1, <3>2 DEF Check
  <2>2. CASE Exit(s) \/ Crash(s)
    BY <1>2, <2>2 DEF Exit, Crash
  <2>3. CASE Supervise(s)
    BY <1>3, <2>3 DEF Supervise
  <2>4. CASE \/ LoadConfig(s) \/ ClearControl(s) \/ ReadControl(s) \/ RemoveControl(s)
             \/ HandleStop(s) \/ HandleSession(s) \/ HandleReload(s) \/ Report(s)
             \/ LeaveLoop(s) \/ ReplaceBinary(s)
    <3>1. proc[s].st \notin {"free", "check"}
      BY <2>4 DEF LoadConfig, ClearControl, ReadControl, RemoveControl, HandleStop,
                  HandleSession, HandleReload, Report, LeaveLoop, ReplaceBinary
    <3>2. \A t \in Slots \ {s} : proc'[t] = proc[t]
      BY <1>0, <2>4 DEF LoadConfig, ClearControl, ReadControl, RemoveControl, HandleStop,
                  HandleSession, HandleReload, Report, LeaveLoop, ReplaceBinary
    <3> QED BY <1>1, <3>1, <3>2
  <2> QED BY <1>6, <2>1, <2>2, <2>3, <2>4 DEF DaemonStep
<1>7. ASSUME NEW c \in Clients, ClientStep(c) PROVE Daemons' \subseteq Daemons
  <2>0. Candidates \in SUBSET Slots
    BY DEF Candidates, Visible
  <2>1. CASE \E s \in Slots :
               Spawn(c, s) \/ EnableUnit(c, s) \/ \E cfg \in Configs : ApplyViaService(c, s, cfg)
    BY <1>3, <1>5, <2>1 DEF Spawn, EnableUnit, ApplyViaService
  <2>2. CASE ListAndSignal(c) \/ DisableUnixUnit(c)
    BY <1>4, <1>5, <2>0, <2>2 DEF ListAndSignal, DisableUnixUnit
  <2>3. CASE \E force \in BOOLEAN : PollTimesOut(c, force)
    BY <1>2, <2>0, <2>3 DEF PollTimesOut
  <2>4. CASE \/ OpenControl(c) \/ FillControl(c) \/ Acked(c) \/ SessionSeen(c)
             \/ ClearResult(c) \/ Stage(c) \/ ResultSeen(c) \/ Done(c) \/ Polled(c)
             \/ Repair(c) \/ CleanUp(c) \/ DisableWindowsService(c) \/ UnitGone(c)
             \/ EnableBusyUnit(c)
    BY <1>5, <2>4 DEF OpenControl, FillControl, Acked, SessionSeen, ClearResult, Stage,
         ResultSeen, Done, Polled, Repair, CleanUp, DisableWindowsService, UnitGone,
         EnableBusyUnit
  <2> QED BY <1>7, <2>1, <2>2, <2>3, <2>4 DEF ClientStep
<1>8. ASSUME NEW c \in Clients,
             \/ ClientDies(c)
             \/ \E op \in Commands, cfg \in Configs \cup {BadConfig, NoFile} : Begin(c, op, cfg)
      PROVE  Daemons' \subseteq Daemons
  BY <1>5, <1>8 DEF ClientDies, Begin
<1> QED BY <1>6, <1>7, <1>8 DEF Next

(***************************************************************************)
(* However many commands, service managers and restarts race, at most one  *)
(* process of a configuration is past ensure_no_other_daemon_processes...  *)
(***************************************************************************)
THEOREM OneDaemon == Spec => []AtMostOneDaemon
<1>1. Init => AtMostOneDaemon
  BY DeadType DEF Init, AtMostOneDaemon, Daemons
<1>2. TypeInv /\ AtMostOneDaemon /\ [Next]_vars => AtMostOneDaemon'
  <2> SUFFICES ASSUME TypeInv, AtMostOneDaemon, [Next]_vars PROVE AtMostOneDaemon'
    OBVIOUS
  <2>1. CASE Next
    BY <2>1, DaemonsGrow DEF AtMostOneDaemon
  <2>2. CASE UNCHANGED vars
    BY <2>2 DEF vars, AtMostOneDaemon, Daemons
  <2> QED BY <2>1, <2>2
<1> QED BY <1>1, <1>2, TypeInit, TypeStep, PTL DEF Spec

-----------------------------------------------------------------------------
(* Daemons that dropped the requests of the time before them. *)
Settled == {s \in Slots : proc[s].st \in {"run", "took", "handle", "report", "stop"}}

(* The request on disk, and the one a client is about to put there through  *)
(* the file it holds open, were begun after every settled daemon was born.  *)
RequestsKnown ==
    control # NoFile =>
      /\ Settled \subseteq control.known
      /\ \A c \in Clients :
           c \in control.fds /\ client[c].pc = "fill" => Settled \subseteq client[c].known
KnownInv == OldRequestsIgnored /\ RequestsKnown

LEMMA SettledVisible == Settled \subseteq Visible /\ Settled \subseteq Slots
BY DEF Settled, Visible

(* No daemon settles, and the request and its writers are as before. *)
LEMMA KnownKept ==
  ASSUME KnownInv, OldRequestsIgnored', Settled' \subseteq Settled,
         control' = control \/ control' = NoFile,
         \A c \in Clients : client'[c].pc = "fill" =>
             client[c].pc = "fill" /\ client'[c].known = client[c].known
  PROVE  KnownInv'
BY DEF KnownInv, RequestsKnown

(* The processes S end. *)
LEMMA KnownWithout ==
  ASSUME TypeInv, KnownInv, NEW S \in SUBSET Slots,
         control' = Without(control, S),
         \A s \in S : proc'[s].st \notin {"run", "took", "handle", "report", "stop"},
         \A s \in Slots \ S : proc'[s].st = proc[s].st /\ proc'[s].known = proc[s].known,
         \A c \in Clients : client'[c].pc = "fill" =>
             client[c].pc = "fill" /\ client'[c].known = client[c].known \ S
  PROVE  KnownInv'
<1>1. control = NoFile \/ control \in ControlRec
  BY TypeByRecord DEF TypeInv
<1>2. Settled' = Settled \ S
  BY DEF Settled
<1>3. OldRequestsIgnored'
  BY DEF KnownInv, OldRequestsIgnored
<1>4. control' # NoFile => /\ control # NoFile
                           /\ control'.fds = control.fds /\ control'.known = control.known \ S
  BY <1>1 DEF Without, ControlRec
<1> QED BY <1>2, <1>3, <1>4 DEF KnownInv, RequestsKnown

LEMMA KnownExits ==
  ASSUME TypeInv, KnownInv, NEW S \in SUBSET Slots, Exits(S),
         \A c \in Clients : client'[c].pc = "fill" =>
             client[c].pc = "fill" /\ client'[c].known = client[c].known \ S
  PROVE  KnownInv'
<1>1. \A s \in Slots : proc'[s] = IF s \in S THEN Dead ELSE proc[s]
  BY DEF Exits, Killed
<1>2. control' = Without(control, S)
  BY DEF Exits
<1> QED BY <1>1, <1>2, DeadType, KnownWithout

LEMMA KnownTerminated ==
  ASSUME TypeInv, KnownInv, NEW S \in SUBSET Slots, proc' = Terminated(S),
         \A s \in S : proc[s].st # "free",
         control' = Without(control, Mortal(S)),
         \A c \in Clients : client'[c].pc = "fill" =>
             client[c].pc = "fill" /\ client'[c].known = client[c].known \ Mortal(S)
  PROVE  KnownInv'
<1>1. Mortal(S) \in SUBSET Slots
  BY DEF Mortal
<1>2. proc \in [Slots -> ProcRec]
  BY TypeByRecord DEF TypeInv
<1>3. \A s \in Mortal(S) : proc'[s].st \notin {"run", "took", "handle", "report", "stop"}
  <2>1. \A s \in Mortal(S) : proc'[s] = Dead
    BY <1>2 DEF Terminated, Mortal
  <2> QED BY <2>1, DeadType
<1>4. \A s \in Slots \ Mortal(S) : proc'[s].st = proc[s].st /\ proc'[s].known = proc[s].known
  <2>1. ASSUME NEW s \in Slots, s \notin Mortal(S)
        PROVE  proc'[s].st = proc[s].st /\ proc'[s].known = proc[s].known
    BY <2>1, TerminatedType, DeadType, <1>1
  <2> QED BY <2>1
<1> QED BY <1>1, <1>3, <1>4, KnownWithout

LEMMA KnownDaemon ==
  ASSUME TypeInv, KnownInv, NEW s \in Slots,
         DaemonStep(s) \/ ReplaceBinary(s) \/ Crash(s) \/ Supervise(s)
  PROVE  KnownInv'
<1>0. /\ proc \in [Slots -> ProcRec] /\ proc[s] \in ProcRec
  BY TypeByRecord DEF TypeInv
<1>1. ASSUME Exits({s}), client' = ClientsWithout({s}) PROVE KnownInv'
  BY <1>1, KnownExits, ClientsWithoutType DEF TypeInv
<1>2. ASSUME client' = client, control' \in {control, NoFile},
             \A t \in Slots \ {s} : proc'[t] = proc[t],
             s \in Settled' => s \in Settled,
             proc'[s].st \in {"took", "handle"} => proc'[s].known
      PROVE  KnownInv'
  <2>1. Settled' \subseteq Settled
    BY <1>2 DEF Settled
  <2>2. OldRequestsIgnored'
    BY <1>2 DEF KnownInv, OldRequestsIgnored
  <2> QED BY <1>2, <2>1, <2>2, KnownKept
<1>3. CASE Check(s)
  <2>1. CASE NoOtherDaemon(s)
    BY <1>0, <1>2, <1>3, <2>1 DEF Check, Settled, ProcRec
  <2> QED BY <1>1, <1>3, <2>1 DEF Check
<1>4. CASE ClearControl(s)
  <2>1. OldRequestsIgnored'
    BY <1>0, <1>4 DEF ClearControl, KnownInv, OldRequestsIgnored, ProcRec
  <2> QED BY <1>4, <2>1 DEF ClearControl, ControlAtStartup, KnownInv, RequestsKnown
<1>5. CASE ReadControl(s)
  <2>1. control # NoFile /\ s \in Settled
    BY <1>0, <1>5 DEF ReadControl, Settled
  <2>2. s \in control.known
    BY <2>1 DEF KnownInv, RequestsKnown
  <2> DEFINE seen == s \in control.known
  <2>3. proc'[s].known = seen /\ \A t \in Slots \ {s} : proc'[t] = proc[t]
    BY <1>0, <1>5 DEF ReadControl, ProcRec
  <2>4. proc'[s].known
    BY <2>2, <2>3
  <2>5. client' = client /\ control' = control
    BY <1>5 DEF ReadControl, files
  <2> QED BY <1>2, <2>1, <2>3, <2>4, <2>5
<1>6. CASE RemoveControl(s)
  <2>1. s \in Settled /\ proc[s].known
    BY <1>0, <1>6 DEF RemoveControl, Settled, KnownInv, OldRequestsIgnored
  <2>2. proc'[s].st \in {"run", "handle"} /\ (proc'[s].st = "handle" => proc'[s].known = proc[s].known)
        /\ \A t \in Slots \ {s} : proc'[t] = proc[t]
    BY <1>0, <1>6 DEF RemoveControl, ProcRec
  <2>3. client' = client /\ control' = NoFile
    BY <1>6 DEF RemoveControl, ControlAfterTake
  <2> QED BY <1>2, <2>1, <2>2, <2>3
<1>7. CASE \/ LoadConfig(s) \/ HandleStop(s) \/ HandleSession(s) \/ HandleReload(s)
           \/ Report(s) \/ LeaveLoop(s) \/ ReplaceBinary(s)
  <2>1. client' = client /\ control' = control /\ \A t \in Slots \ {s} : proc'[t] = proc[t]
    BY <1>0, <1>7 DEF LoadConfig, HandleStop, HandleSession, HandleReload, Report, LeaveLoop,
                      ReplaceBinary, files
  <2>2. s \in Settled \/ proc[s].st = "load"
    BY <1>7 DEF LoadConfig, HandleStop, HandleSession, HandleReload, Report, LeaveLoop,
                ReplaceBinary, Settled
  <2>3. /\ proc'[s].st \notin {"took", "handle"}
        /\ proc[s].st = "load" => proc'[s].st = "clear"
    BY <1>0, <1>7 DEF LoadConfig, HandleStop, HandleSession, HandleReload, Report, LeaveLoop,
                      ReplaceBinary, ProcRec
  <2>4. s \in Settled' => s \in Settled
    BY <2>2, <2>3 DEF Settled
  <2> QED BY <1>2, <2>1, <2>3, <2>4
<1>8. CASE Exit(s) \/ Crash(s)
  BY <1>1, <1>8 DEF Exit, Crash
<1>9. CASE Supervise(s)
  <2>1. Born(s) /\ client' = client /\ control' = control
    BY <1>9 DEF Supervise, files
  <2> QED BY <1>2, <2>1, BornType DEF Settled
<1> QED BY <1>3, <1>4, <1>5, <1>6, <1>7, <1>8, <1>9 DEF DaemonStep

(* A client that has no file open, and processes that are not signalled. *)
LEMMA KnownQuiet ==
  ASSUME TypeInv, KnownInv, NEW c \in Clients,
         proc' = proc \/ \E s \in Slots : Born(s),
         control' \in {control, NoFile},
         \A d \in Clients \ {c} : client'[d] = client[d],
         client'[c].pc # "fill"
  PROVE  KnownInv'
<1>1. Settled' \subseteq Settled
  BY BornType DEF Settled
<1>2. OldRequestsIgnored'
  <2>1. \A s \in Slots : proc'[s].st \in {"took", "handle"} => proc'[s] = proc[s]
    BY BornType
  <2> QED BY <2>1 DEF KnownInv, OldRequestsIgnored
<1> QED BY <1>1, <1>2, KnownKept

LEMMA KnownClient ==
  ASSUME TypeInv, KnownInv, NEW c \in Clients, ClientStep(c)
  PROVE  KnownInv'
<1>0. /\ client \in [Clients -> ClientRec] /\ client[c] \in ClientRec
      /\ control = NoFile \/ control \in ControlRec
      /\ proc \in [Slots -> ProcRec] /\ (svc # NoFile => proc[svc].st # "free")
      /\ Visible \in SUBSET Slots /\ \A s \in Visible : proc[s].st # "free"
  BY TypeByRecord DEF TypeInv, ClientsOK, Visible
<1>1. ASSUME proc' = proc, control' # NoFile => Settled \subseteq control'.known,
             \A d \in Clients : control' # NoFile /\ d \in control'.fds /\ client'[d].pc = "fill"
                               => Settled \subseteq client'[d].known
      PROVE  KnownInv'
  BY <1>1 DEF KnownInv, OldRequestsIgnored, RequestsKnown, Settled
<1>2. CASE \E s \in Slots :
             Spawn(c, s) \/ EnableUnit(c, s) \/ \E cfg \in Configs : ApplyViaService(c, s, cfg)
  <2>1. proc' = proc \/ \E s \in Slots : Born(s)
    BY <1>2 DEF Spawn, EnableUnit, ApplyViaService
  <2>2. control' = control
    BY <1>2 DEF Spawn, EnableUnit, ApplyViaService, files
  <2>3. (\A d \in Clients \ {c} : client'[d] = client[d]) /\ client'[c].pc # "fill"
    BY <1>0, <1>2, RestingType DEF Spawn, EnableUnit, ApplyViaService, Ends
  <2> QED BY <2>1, <2>2, <2>3, KnownQuiet
<1>3. CASE OpenControl(c)
  <2>1. control' = Request("empty", {c} \cup (IF control = NoFile THEN {} ELSE control.fds), Visible)
    BY <1>3 DEF OpenControl
  <2>2. control'.known = Visible
        /\ \A d \in control'.fds : d = c \/ (control # NoFile /\ d \in control.fds)
    BY <2>1 DEF Request
  <2>3. client'[c].known = Visible /\ (\A d \in Clients \ {c} : client'[d] = client[d])
        /\ proc' = proc
    BY <1>0, <1>3 DEF OpenControl, ClientRec
  <2> QED BY <1>1, <2>2, <2>3, SettledVisible DEF KnownInv, RequestsKnown
<1>4. CASE FillControl(c)
  <2>1. client'[c].pc # "fill" /\ (\A d \in Clients \ {c} : client'[d] = client[d]) /\ proc' = proc
    BY <1>0, <1>4 DEF FillControl, ClientRec
  <2>2. CASE control # NoFile /\ c \in control.fds
    <3>1. control'.known = client[c].known /\ control'.fds = control.fds \ {c}
      BY <1>4, <2>2 DEF FillControl, Request
    <3>2. Settled \subseteq client[c].known
      BY <1>4, <2>2 DEF FillControl, KnownInv, RequestsKnown
    <3> QED BY <1>1, <2>1, <2>2, <3>1, <3>2 DEF KnownInv, RequestsKnown
  <2>3. CASE ~(control # NoFile /\ c \in control.fds)
    <3>1. control' = control
      BY <1>4, <2>3 DEF FillControl
    <3> QED BY <2>1, <3>1, KnownQuiet
  <2> QED BY <2>2, <2>3
<1>5. CASE DisableWindowsService(c)
  <2>1. control' = control \/ (control'.known = Visible /\ control'.fds = {})
    BY <1>5 DEF DisableWindowsService, ServiceStopRequest, Request
  <2>2. proc' = proc /\ client'[c].pc # "fill" /\ \A d \in Clients \ {c} : client'[d] = client[d]
    BY <1>0, <1>5 DEF DisableWindowsService, Goes, ClientRec
  <2> QED BY <1>1, <2>1, <2>2, SettledVisible DEF KnownInv, RequestsKnown
<1>6. CASE \/ Acked(c) \/ SessionSeen(c) \/ ClearResult(c) \/ Stage(c) \/ ResultSeen(c)
           \/ Done(c) \/ Polled(c) \/ Repair(c) \/ CleanUp(c) \/ UnitGone(c) \/ EnableBusyUnit(c)
  <2>1. proc' = proc /\ control' \in {control, NoFile}
    BY <1>6 DEF Acked, SessionSeen, ClearResult, Stage, ResultSeen, Done, Polled, Repair,
                CleanUp, UnitGone, EnableBusyUnit, files
  <2>2. \A d \in Clients \ {c} : client'[d] = client[d]
    BY <1>0, <1>6 DEF Acked, SessionSeen, ClearResult, Stage, ResultSeen, Done, Polled, Repair,
                CleanUp, UnitGone, EnableBusyUnit, Goes, Ends
  <2>3. client'[c].pc # "fill"
    BY <1>0, <1>6, RestingType DEF Acked, SessionSeen, ClearResult, Stage, ResultSeen, Done,
                Polled, Repair, CleanUp, UnitGone, EnableBusyUnit, Goes, Ends, ClientRec
  <2> QED BY <2>1, <2>2, <2>3, KnownQuiet
<1>7. ASSUME NEW S \in SUBSET Slots, NEW new,
             client' = [ClientsWithout(S) EXCEPT ![c] = new], new.pc # "fill"
      PROVE  \A d \in Clients : client'[d].pc = "fill" =>
                client[d].pc = "fill" /\ client'[d].known = client[d].known \ S
  <2>1. client'[c] = new /\ \A d \in Clients \ {c} : client'[d] = ClientsWithout(S)[d]
    BY <1>7, ClientsWithoutType DEF TypeInv
  <2> QED BY <1>7, <2>1, ClientsWithoutType DEF TypeInv
<1>8. CASE ListAndSignal(c)
  <2> DEFINE a == [client[c] EXCEPT !.pc = "finish"]
             b == [client[c] EXCEPT !.pc = "open", !.asked = TRUE]
  <2>a. a.pc # "fill" /\ b.pc # "fill"
    BY <1>0 DEF ClientRec
  <2>1. CASE /\ UNCHANGED <<proc, svc, control>>
             /\ client' = [client EXCEPT ![c] = a] \/ client' = [client EXCEPT ![c] = b]
    <3> HIDE DEF a, b
    <3>1. (\A d \in Clients \ {c} : client'[d] = client[d]) /\ client'[c].pc # "fill"
      BY <1>0, <2>a, <2>1
    <3> QED BY <2>1, <3>1, KnownQuiet
  <2>2. CASE /\ proc' = Terminated(Visible) /\ control' = Without(control, Mortal(Visible))
             /\ client' = [ClientsWithout(Mortal(Visible)) EXCEPT ![c].pc = "poll"]
    <3>1. Mortal(Visible) \in SUBSET Slots
      BY <1>0 DEF Mortal
    <3> DEFINE new == [ClientsWithout(Mortal(Visible))[c] EXCEPT !.pc = "poll"]
    <3>2. new.pc # "fill" /\ client' = [ClientsWithout(Mortal(Visible)) EXCEPT ![c] = new]
      BY <2>2, <3>1, ClientsWithoutType DEF TypeInv, ClientRec
    <3> HIDE DEF new
    <3> QED BY <1>0, <1>7, <2>2, <3>1, <3>2, KnownTerminated
  <2> QED BY <1>0, <1>8, <2>1, <2>2 DEF ListAndSignal, Candidates, Goes
<1>9. ASSUME NEW force \in BOOLEAN, PollTimesOut(c, force) PROVE KnownInv'
  <2> DEFINE K == IF force /\ root /\ ~client[c].ok THEN Candidates ELSE {}
  <2>1. K \in SUBSET Slots /\ Exits(K)
    BY <1>9 DEF PollTimesOut, Candidates, Visible
  <2>2. client' = [ClientsWithout(K) EXCEPT ![c] =
            IF @.asked THEN [@ EXCEPT !.pc = "open", !.asked = FALSE, !.ok = TRUE]
            ELSE IF K = Candidates THEN [@ EXCEPT !.pc = "finish"]
            ELSE Resting]
    BY <1>9 DEF PollTimesOut
  <2> HIDE DEF K
  <2> DEFINE old == ClientsWithout(K)[c]
             a == [old EXCEPT !.pc = "open", !.asked = FALSE, !.ok = TRUE]
             b == [old EXCEPT !.pc = "finish"]
             new == IF old.asked THEN a ELSE IF K = Candidates THEN b ELSE Resting
  <2>a. old \in ClientRec
    BY <2>1, ClientsWithoutType DEF TypeInv
  <2>b. client' = [ClientsWithout(K) EXCEPT ![c] = new]
    BY <2>2
  <2> HIDE DEF old
  <2>c. a.pc = "open" /\ b.pc = "finish"
    BY <2>a DEF ClientRec
  <2> HIDE DEF a, b
  <2>3. new.pc # "fill"
    BY <2>c, RestingType
  <2> HIDE DEF new
  <2> QED BY <1>7, <2>1, <2>b, <2>3, KnownExits
<1>10. CASE DisableUnixUnit(c)
  <2> DEFINE S == {svc} \cap Slots
  <2>1. /\ proc' = Terminated(S) /\ control' = Without(control, Mortal(S))
        /\ client' = [ClientsWithout(Mortal(S)) EXCEPT ![c].pc = "unload"]
    BY <1>10 DEF DisableUnixUnit
  <2>2. S \in SUBSET Slots /\ Mortal(S) \in SUBSET Slots /\ \A s \in S : proc[s].st # "free"
    BY <1>0, DaemonControlAssumption DEF Mortal
  <2> HIDE DEF S
  <2> DEFINE new == [ClientsWithout(Mortal(S))[c] EXCEPT !.pc = "unload"]
  <2>3. new.pc # "fill" /\ client' = [ClientsWithout(Mortal(S)) EXCEPT ![c] = new]
    BY <2>1, <2>2, ClientsWithoutType DEF TypeInv, ClientRec
  <2> HIDE DEF new
  <2> QED BY <1>7, <2>1, <2>2, <2>3, KnownTerminated
<1> QED BY <1>2, <1>3, <1>4, <1>5, <1>6, <1>8, <1>9, <1>10 DEF ClientStep

LEMMA KnownOther ==
  ASSUME TypeInv, KnownInv, NEW c \in Clients,
         \/ ClientDies(c)
         \/ \E op \in Commands, cfg \in Configs \cup {BadConfig, NoFile} : Begin(c, op, cfg)
  PROVE  KnownInv'
<1>0. client \in [Clients -> ClientRec]
  BY DEF TypeInv, ClientsOK
<1>1. proc' = proc /\ control' = control
  BY DEF ClientDies, Begin, files
<1>2. \A d \in Clients \ {c} : client'[d] = client[d]
  BY <1>0 DEF ClientDies, Begin, Ends
<1>3. client'[c].pc # "fill"
  <2>1. CASE ClientDies(c)
    BY <1>0, <2>1, RestingType DEF ClientDies, Ends
  <2>2. ASSUME NEW op \in Commands, NEW cfg \in Configs \cup {BadConfig, NoFile}, Begin(c, op, cfg)
        PROVE  client'[c].pc # "fill"
    BY <1>0, <2>2 DEF Begin, Resting
  <2> QED BY <2>1, <2>2
<1> QED BY <1>1, <1>2, <1>3, KnownQuiet

(***************************************************************************)
(* What a daemon takes from daemon.control was begun when it was already   *)
(* there: requests are dropped at its start, and a client that wrote into  *)
(* the file it had opened before that wrote into a removed one.            *)
(***************************************************************************)
THEOREM RequestsAreNew == Spec => []OldRequestsIgnored
<1>1. Init => KnownInv
  BY DeadType DEF Init, KnownInv, OldRequestsIgnored, RequestsKnown
<1>2. TypeInv /\ KnownInv /\ [Next]_vars => KnownInv'
  <2> SUFFICES ASSUME TypeInv, KnownInv, [Next]_vars PROVE KnownInv'
    OBVIOUS
  <2>1. CASE Next
    BY <2>1, KnownDaemon, KnownClient, KnownOther DEF Next
  <2>2. CASE UNCHANGED vars
    BY <2>2 DEF vars, KnownInv, OldRequestsIgnored, RequestsKnown, Settled
  <2> QED BY <2>1, <2>2
<1>3. KnownInv => OldRequestsIgnored
  BY DEF KnownInv
<1> QED BY <1>1, <1>2, <1>3, TypeInit, TypeStep, PTL DEF Spec
============================================================================
