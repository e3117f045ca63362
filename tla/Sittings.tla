------------------------------ MODULE Sittings ------------------------------
(***************************************************************************)
(* What a node promises about the sittings of its students, with every     *)
(* request, sweep and reset an atomic step: a student has a list of        *)
(* sittings, in order; all but the last are over for good.                 *)
(***************************************************************************)
EXTENDS Naturals, Sequences

CONSTANTS Participant, Device, None,
          StartsAt, EndsAt, Duration, MaxAttempts

VARIABLES clock, sittings

vars == <<clock, sittings>>

Over == {"submitted", "auto_submitted"}

Last(p) == sittings[p][Len(sittings[p])]

IsOpen(p) == sittings[p] # <<>> /\ Last(p).status = "in_progress"

Expired(p) == Last(p).due < clock

(* The sittings of p with s in the place of the last one.                  *)
WithLast(p, s) == [sittings[p] EXCEPT ![Len(sittings[p])] = s]

Init ==
  /\ clock = 0
  /\ sittings = [p \in Participant |-> <<>>]

(* The due time is fixed by when the request came in, and by the exam.     *)
Fresh(d, now) ==
  [status |-> "in_progress", device |-> d, generation |-> 0,
   due |-> IF now + Duration < EndsAt THEN now + Duration ELSE EndsAt]

(* A next sitting needs the previous one to be over.                       *)
Begin(p) ==
  /\ ~IsOpen(p)
  /\ Len(sittings[p]) < MaxAttempts
  /\ \E d \in Device \cup {None}, now \in StartsAt..clock :
       sittings' = [sittings EXCEPT ![p] = Append(@, Fresh(d, now))]
  /\ UNCHANGED clock

(* One that has expired may be closed, on a device, and followed at once.  *)
Follow(p) ==
  /\ IsOpen(p) /\ Expired(p)
  /\ Len(sittings[p]) < MaxAttempts
  /\ \E b, d \in Device \cup {None}, now \in StartsAt..clock :
       /\ Last(p).device \in {None, b}
       /\ sittings' = [sittings EXCEPT ![p] =
            Append(WithLast(p, [Last(p) EXCEPT !.status = "auto_submitted",
                                               !.device = b]),
                   Fresh(d, now))]
  /\ UNCHANGED clock

(* A sitting begun without a device takes the first one, while it is open. *)
Bind(p, d) ==
  /\ IsOpen(p) /\ Last(p).device = None
  /\ sittings' = [sittings EXCEPT ![p] =
                    WithLast(p, [Last(p) EXCEPT !.device = d])]
  /\ UNCHANGED clock

(* The student closes it at any time, the node only after the due time.    *)
Close(p, how) ==
  /\ IsOpen(p)
  /\ how = "auto_submitted" => Expired(p)
  /\ sittings' = [sittings EXCEPT ![p] =
                    WithLast(p, [Last(p) EXCEPT !.status = how])]
  /\ UNCHANGED clock

(* An operator has the last sitting go on, before it is due.               *)
Reopen(p) ==
  /\ sittings[p] # <<>> /\ Last(p).status \in Over
  /\ clock < Last(p).due
  /\ sittings' = [sittings EXCEPT ![p] =
                    WithLast(p, [Last(p) EXCEPT !.status = "in_progress",
                                                !.generation = @ + 1])]
  /\ UNCHANGED clock

Tick ==
  /\ clock' = clock + 1
  /\ UNCHANGED sittings

Next ==
  \/ \E p \in Participant :
       \/ Begin(p) \/ Follow(p) \/ Reopen(p)
       \/ \E d \in Device : Bind(p, d)
       \/ \E how \in Over : Close(p, how)
  \/ Tick

Spec == Init /\ [][Next]_vars
=============================================================================
