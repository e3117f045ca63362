----------------------------- MODULE Migrations -----------------------------
(***************************************************************************)
(* The schema migrations that examnode and bundleload each run when they   *)
(* start, on one database.  An advisory lock, which the server gives back  *)
(* when its holder's connection ends, keeps the runs apart.  MySQL commits *)
(* every change of the schema by itself, so a run that ends anywhere       *)
(* leaves what it has done; a change is therefore made only after a look   *)
(* at whether it is there already, and a migration is recorded last.       *)
(***************************************************************************)
EXTENDS Naturals

CONSTANTS
  Runner, NoRunner,
  Versions,        \* migrations, 1..Versions in the order of their names
  Changes,         \* number of schema changes in each
  Refused,         \* changes that the data of the node may be in the way of
  MaxCrashes       \* bound of the model

Version == 1..Versions

Change == UNION {{v} \X (1..Changes[v]) : v \in Version}

ASSUME MigrationAssumption ==
  /\ NoRunner \notin Runner
  /\ Versions \in Nat /\ Changes \in [1..Versions -> Nat \ {0}]
  /\ Refused \subseteq Change
  /\ MaxCrashes \in Nat

VARIABLES
  schema,      \* changes in effect
  recorded,    \* schema_migrations
  lock,        \* holder of GET_LOCK
  runner,      \* locals of each process's run
  inTheWay,    \* refused changes whose data has not been repaired
  crashes

migrationVars == <<schema, recorded, lock, runner, inTheWay, crashes>>

Down == [pc |-> "down", version |-> 1, change |-> 1, found |-> FALSE]

MigrationTypeOK ==
  /\ schema \subseteq Change
  /\ recorded \subseteq Version
  /\ lock \in Runner \cup {NoRunner}
  /\ runner \in [Runner ->
                   [pc : {"down", "lock", "look", "probe", "alter", "record",
                          "clash", "up"},
                    version : 1..(Versions + 1), change : Nat,
                    found : BOOLEAN]]
  /\ inTheWay \subseteq Change
  /\ crashes \in Nat

(* A database that is new, or that was set up by hand up to some version.  *)
MigrationInit ==
  /\ \E v \in 0..Versions : schema = {c \in Change : c[1] <= v}
  /\ recorded = {}
  /\ lock = NoRunner
  /\ runner = [r \in Runner |-> Down]
  /\ inTheWay = Refused \ schema
  /\ crashes = 0

-----------------------------------------------------------------------------
Go(r, pc) == runner' = [runner EXCEPT ![r].pc = pc]

Unlocked(r) == IF lock = r THEN NoRunner ELSE lock

(* log.Fatal: the process ends, and its connection with it.                *)
Exit(r) == /\ runner' = [runner EXCEPT ![r] = Down]
           /\ lock' = Unlocked(r)

StartRunner(r) ==
  /\ runner[r].pc = "down"
  /\ Go(r, "lock")
  /\ UNCHANGED <<schema, recorded, lock, inTheWay, crashes>>

(* Mutant of Free: a run goes on without the lock.                         *)
FreeAlways == TRUE

Free == lock = NoRunner

GetLock(r) ==
  /\ runner[r].pc = "lock"
  /\ Free
  /\ lock' = r
  /\ Go(r, "look")
  /\ UNCHANGED <<schema, recorded, inTheWay, crashes>>

(* Ten seconds are over: the run fails, it does not go on beside another.  *)
LockTimeout(r) ==
  /\ runner[r].pc = "lock"
  /\ ~Free
  /\ Exit(r)
  /\ UNCHANGED <<schema, recorded, inTheWay, crashes>>

Current(r) == <<runner[r].version, runner[r].change>>

NextVersion(r) ==
  runner' = [runner EXCEPT ![r].pc = "look", ![r].version = @ + 1,
                           ![r].change = 1]

SkipRecorded(r) ==
  /\ runner[r].pc = "look"
  /\ runner[r].version \in recorded
  /\ NextVersion(r)
  /\ UNCHANGED <<schema, recorded, lock, inTheWay, crashes>>

BeginVersion(r) ==
  /\ runner[r].pc = "look"
  /\ runner[r].version \in Version \ recorded
  /\ Go(r, "probe")
  /\ UNCHANGED <<schema, recorded, lock, inTheWay, crashes>>

(* The look at information_schema, kept in a session variable.             *)
Probe(r) ==
  /\ runner[r].pc = "probe"
  /\ runner' = [runner EXCEPT ![r].pc = "alter",
                              ![r].found = Current(r) \in schema]
  /\ UNCHANGED <<schema, recorded, lock, inTheWay, crashes>>

(* Mutant of AfterLast: recorded before its last change is made.           *)
AfterLastButOne(r) == IF runner[r].change + 1 < Changes[runner[r].version]
                      THEN "probe" ELSE "record"

AfterLast(r) == IF runner[r].change < Changes[runner[r].version]
                THEN "probe" ELSE "record"

NextChange(r) ==
  runner' = [runner EXCEPT ![r].pc = AfterLast(r), ![r].change = @ + 1]

(* The statement that was prepared: the change, unless it was found.  One  *)
(* that is there all the same, or that the data does not allow, fails.     *)
Alter(r) ==
  LET c == Current(r) IN
  /\ runner[r].pc = "alter"
  /\ \/ /\ runner[r].found
        /\ NextChange(r)
        /\ UNCHANGED <<schema, lock>>
     \/ /\ ~runner[r].found /\ c \notin schema \cup inTheWay
        /\ schema' = schema \cup {c}
        /\ NextChange(r)
        /\ UNCHANGED lock
     \/ /\ ~runner[r].found /\ c \in inTheWay
        /\ Exit(r)
        /\ UNCHANGED schema
     \/ /\ ~runner[r].found /\ c \in schema
        /\ Go(r, "clash")
        /\ UNCHANGED <<schema, lock>>
  /\ UNCHANGED <<recorded, inTheWay, crashes>>

(* An insert that finds the name recorded by another is as good as one.    *)
Record(r) ==
  /\ runner[r].pc = "record"
  /\ recorded' = recorded \cup {runner[r].version}
  /\ NextVersion(r)
  /\ UNCHANGED <<schema, lock, inTheWay, crashes>>

(* All versions passed: the lock is released, and the program goes on.     *)
Serve(r) ==
  /\ runner[r].pc = "look"
  /\ runner[r].version > Versions
  /\ Go(r, "up")
  /\ lock' = Unlocked(r)
  /\ UNCHANGED <<schema, recorded, inTheWay, crashes>>

(* A process ends, of itself once it is up, or by a crash or a failed      *)
(* statement before that; MySQL may finish the change it is at.            *)
StopRunner(r) ==
  /\ runner[r].pc # "down"
  /\ \/ runner[r].pc = "up" /\ UNCHANGED <<schema, crashes>>
     \/ /\ runner[r].pc # "up"
        /\ crashes < MaxCrashes /\ crashes' = crashes + 1
        /\ \/ UNCHANGED schema
           \/ /\ runner[r].pc = "alter" /\ ~runner[r].found
              /\ schema' = schema \cup ({Current(r)} \ inTheWay)
  /\ Exit(r)
  /\ UNCHANGED <<recorded, inTheWay>>

(* The operator puts the data right.                                       *)
Repair ==
  /\ inTheWay # {}
  /\ inTheWay' = {}
  /\ UNCHANGED <<schema, recorded, lock, runner, crashes>>

-----------------------------------------------------------------------------
MigrationNext ==
  \/ \E r \in Runner :
       \/ StartRunner(r)
       \/ GetLock(r) \/ LockTimeout(r)
       \/ SkipRecorded(r) \/ BeginVersion(r)
       \/ Probe(r) \/ Alter(r) \/ Record(r)
       \/ Serve(r)
       \/ StopRunner(r)
  \/ Repair

MigrationSpec == MigrationInit /\ [][MigrationNext]_migrationVars

-----------------------------------------------------------------------------
(* A program that goes on finds the whole schema, and all of it recorded,  *)
(* whatever was left by earlier runs and whoever runs beside it.           *)
ServesMigrated ==
  \A r \in Runner :
    runner[r].pc = "up" => schema = Change /\ recorded = Version

(* No run ever makes a change a second time: neither one that another run  *)
(* makes between its look and its own, nor one left by a run that crashed. *)
NeverClashes == \A r \in Runner : runner[r].pc # "clash"
=============================================================================
