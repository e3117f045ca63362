----------------------------- MODULE LoginLimit -----------------------------
(***************************************************************************)
(* Login and its rate limit: so many logins by key within a window, for    *)
(* so many keys that the server remembers.  A mutex makes the limiter's    *)
(* work on one request a single step; the lookups that follow only read.   *)
(***************************************************************************)
EXTENDS Naturals, FiniteSets, Sequences

CONSTANTS
  Key,             \* clients, or access codes of requests without a client
  Limit, Window, MaxKeys,
  MaxNow           \* bound of the model

ASSUME LoginAssumption ==
  /\ {Limit, Window, MaxKeys} \subseteq Nat \ {0}
  /\ MaxNow \in Nat /\ Key # {}

VARIABLES
  now,
  hits,      \* times of the logins let in, by the keys remembered
  login,     \* the last login: its key, time and result
  history    \* history: all logins let in since the key was forgotten last

loginVars == <<now, hits, login, history>>

Result == {"none", "malformed", "too_many", "invalid", "token"}

LoginTypeOK ==
  /\ now \in Nat
  /\ DOMAIN hits \subseteq Key /\ Cardinality(DOMAIN hits) <= MaxKeys
  /\ \A k \in DOMAIN hits : hits[k] \in Seq(0..now) /\ Len(hits[k]) <= Limit
  /\ login \in [key : Key, at : 0..now, result : Result]
  /\ history \in [Key -> Seq(0..now)]

LoginInit ==
  /\ now = 0
  /\ hits = [k \in {} |-> <<>>]
  /\ login = [key |-> CHOOSE k \in Key : TRUE, at |-> 0, result |-> "none"]
  /\ history = [k \in Key |-> <<>>]

-----------------------------------------------------------------------------
Remembered == DOMAIN hits

(* The times still within the window; kept[n] is what the loop has kept of *)
(* the first n.                                                            *)
Recent(times) ==
  LET kept[n \in 0..Len(times)] ==
        IF n = 0 THEN <<>>
        ELSE IF times[n] + Window > now THEN Append(kept[n - 1], times[n])
        ELSE kept[n - 1]
  IN kept[Len(times)]

RecentOf(k) == IF k \in Remembered THEN Recent(hits[k]) ELSE <<>>

(* Where there is no room for another key, one is forgotten whose list is  *)
(* empty or starts, before any filtering, earlier than the others'.        *)
Forgettable ==
  IF \E k \in Remembered : hits[k] = <<>>
  THEN {k \in Remembered : hits[k] = <<>>}
  ELSE {k \in Remembered : \A j \in Remembered : hits[k][1] <= hits[j][1]}

(* Mutant of Room: the limit on keys is not kept.                          *)
RoomAlways(k) == TRUE

Room(k) == k \in Remembered \/ Cardinality(Remembered) < MaxKeys

(* Mutant of Exhausted: logins that the window has left behind count too.  *)
ExhaustedForGood(k) == k \in Remembered /\ Len(hits[k]) >= Limit

Exhausted(k) == Len(RecentOf(k)) >= Limit

(* allow, for a limiter that forgets the keys in gone.                     *)
Allow(k, gone) ==
  LET kept  == (Remembered \ gone) \cup {k}
      times == IF Exhausted(k) THEN RecentOf(k) ELSE Append(RecentOf(k), now)
  IN
  /\ hits' = [j \in kept |-> IF j = k THEN times ELSE hits[j]]
  /\ history' = [j \in Key |->
       CASE j \in gone -> <<>>
         [] j = k /\ ~Exhausted(k) -> Append(history[j], now)
         [] OTHER -> history[j]]

Logged(k, result) == login' = [key |-> k, at |-> now, result |-> result]

(* A code that cannot be one is turned away before the limiter.            *)
LoginMalformed(k) ==
  /\ Logged(k, "malformed")
  /\ UNCHANGED <<now, hits, history>>

(* Whether there is a participant with that code is found out afterwards,  *)
(* and every login let in counts; so does one whose lookup fails.          *)
Login(k) ==
  /\ \/ Room(k) /\ Allow(k, {})
     \/ ~Room(k) /\ \E j \in Forgettable : Allow(k, {j})
  /\ \/ Exhausted(k) /\ Logged(k, "too_many")
     \/ ~Exhausted(k) /\ \E result \in {"invalid", "token"} : Logged(k, result)
  /\ UNCHANGED now

LoginTick ==
  /\ now < MaxNow
  /\ now' = now + 1
  /\ UNCHANGED <<hits, login, history>>

LoginNext ==
  \/ \E k \in Key : LoginMalformed(k) \/ Login(k)
  \/ LoginTick

LoginSpec == LoginInit /\ [][LoginNext]_loginVars

-----------------------------------------------------------------------------
(* As long as its key is remembered, a client is let in at most Limit      *)
(* times within any window, and turned away only when it was let in as     *)
(* often within the last one: refusals do not keep it out longer.          *)
LimitIsExact ==
  /\ \A k \in Key : \A i \in 1..Len(history[k]) :
       i + Limit <= Len(history[k]) =>
         history[k][i + Limit] >= history[k][i] + Window
  /\ login.result = "too_many" =>
       Cardinality({i \in 1..Len(history[login.key]) :
                      history[login.key][i] + Window > login.at}) >= Limit
=============================================================================
