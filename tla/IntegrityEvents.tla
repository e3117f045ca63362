--------------------------- MODULE IntegrityEvents ---------------------------
(***************************************************************************)
(* RecordEvent for one attempt.  The transaction locks the attempt's row,  *)
(* takes the time, counts and looks for a duplicate, and inserts; requests *)
(* of the attempt wait for the lock, so what they read is committed.       *)
(*                                                                         *)
(* The column created_at holds whole seconds and MySQL rounds to them,     *)
(* while the comparisons use the exact time: a tick of the clock here is   *)
(* the third of a second, which is rounded down, up or not at all.         *)
(***************************************************************************)
EXTENDS Naturals, FiniteSets

CONSTANTS
  Sender,          \* requests that report events of the attempt
  Kind,            \* event types
  Nobody,
  RateLimit, RateWindow, DedupWindow,   \* windows in ticks
  MaxTicks         \* bound of the model

Second == 3

ASSUME IntegrityAssumption ==
  /\ Nobody \notin Sender /\ Kind # {}
  /\ RateLimit \in Nat \ {0} /\ {RateWindow, DedupWindow, MaxTicks} \subseteq Nat

VARIABLES
  ticks,
  rowLock,    \* holder of the attempt's row
  sender,     \* locals: event type, time taken, whether the insert is next
  events      \* integrity_events: id, type, created_at, and the exact time

integrityVars == <<ticks, rowLock, sender, events>>

Quiet == [pc |-> "idle", kind |-> CHOOSE k \in Kind : TRUE, at |-> 0]

IntegrityTypeOK ==
  /\ ticks \in Nat
  /\ rowLock \in Sender \cup {Nobody}
  /\ sender \in [Sender -> [pc : {"idle", "check", "insert"}, kind : Kind,
                            at : Nat]]
  /\ \A e \in events : /\ e.kind \in Kind /\ {e.id, e.stored, e.at} \subseteq Nat
                       /\ e.stored % Second = 0

IntegrityInit ==
  /\ ticks = 0
  /\ rowLock = Nobody
  /\ sender = [s \in Sender |-> Quiet]
  /\ events = {}

-----------------------------------------------------------------------------
(* DATETIME without a fraction.                                            *)
Rounded(t) == ((t + 1) \div Second) * Second

Since(t, window) == {e \in events : e.stored + window >= t}

(* Mutant of Locked: the row is read without FOR UPDATE.                   *)
LockedNever == FALSE

Locked == rowLock # Nobody

LockAttempt(s, k) ==
  /\ sender[s].pc = "idle"
  /\ ~Locked
  /\ rowLock' = s
  /\ sender' = [sender EXCEPT ![s] = [pc |-> "check", kind |-> k,
                                      at |-> ticks]]
  /\ UNCHANGED <<ticks, events>>

Flooded(s) == Cardinality(Since(sender[s].at, RateWindow)) >= RateLimit

Duplicate(s) ==
  \E e \in Since(sender[s].at, DedupWindow) : e.kind = sender[s].kind

(* The transaction ends: refused, or answered with the event there is.     *)
Release(s) ==
  /\ rowLock' = IF rowLock = s THEN Nobody ELSE rowLock
  /\ sender' = [sender EXCEPT ![s] = Quiet]

(* The count comes first: a duplicate is refused as well once it is full.  *)
Check(s) ==
  /\ sender[s].pc = "check"
  /\ IF Flooded(s) \/ Duplicate(s) THEN Release(s)
     ELSE /\ sender' = [sender EXCEPT ![s].pc = "insert"]
          /\ UNCHANGED rowLock
  /\ UNCHANGED <<ticks, events>>

Insert(s) ==
  /\ sender[s].pc = "insert"
  /\ events' = events \cup
       {[id |-> Cardinality(events), kind |-> sender[s].kind,
         at |-> sender[s].at, stored |-> Rounded(sender[s].at)]}
  /\ Release(s)
  /\ UNCHANGED ticks

(* A failed statement, a dropped connection, a crash: rolled back.         *)
RollBack(s) ==
  /\ sender[s].pc # "idle"
  /\ Release(s)
  /\ UNCHANGED <<ticks, events>>

IntegrityTick ==
  /\ ticks < MaxTicks
  /\ ticks' = ticks + 1
  /\ UNCHANGED <<rowLock, sender, events>>

IntegrityNext ==
  \/ \E s \in Sender :
       \/ \E k \in Kind : LockAttempt(s, k)
       \/ Check(s) \/ Insert(s) \/ RollBack(s)
  \/ IntegrityTick

IntegritySpec == IntegrityInit /\ [][IntegrityNext]_integrityVars

-----------------------------------------------------------------------------
(* However many requests come at once: of the events within a window, less *)
(* the half second that rounding may take off it, no more than the limit   *)
(* are stored, and of those of one type within the duplicate window, less  *)
(* that, no more than one.                                                 *)
EventsAreLimited ==
  \A e \in events :
    /\ Cardinality({f \in events : e.at <= f.at /\ f.at + 1 <= e.at + RateWindow})
         <= RateLimit
    /\ \A f \in events \ {e} :
         e.kind = f.kind /\ e.at <= f.at => f.at + 1 > e.at + DedupWindow
=============================================================================
