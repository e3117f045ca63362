--------------------------- MODULE DeploymentFence ---------------------------
(***************************************************************************)
(* Central fences a deployment that is to be moved off a node: the node's  *)
(* reconciler lists the pending fences, marks the exam's row and tells     *)
(* Central, which then counts on it.  Every student request looks at the   *)
(* row once, before its handler runs; the handler writes later.            *)
(*                                                                         *)
(* There is one exam, given to the node under one deployment at a time.    *)
(***************************************************************************)
EXTENDS Naturals

CONSTANTS
  Deployment, NoDeployment,
  Client,          \* requests of students, one after the other
  MaxTroubles      \* bound of the model: failed calls and crashes

ASSUME FenceAssumption ==
  NoDeployment \notin Deployment /\ MaxTroubles \in Nat

VARIABLES
  exam,         \* the exam's row: deployment, NoDeployment without a row, mark
  served,       \* deployments the node has issued tokens for
  fence,        \* Central's record of each fence
  reconciler,   \* locals of one round
  client,       \* locals of each request
  replaced,     \* history: fences whose row was replaced since the last mark
  troubles

fenceVars == <<exam, served, fence, reconciler, client, replaced, troubles>>

Resting == [pc |-> "idle", todo |-> {}, dep |-> NoDeployment]
NoRequest == [dep |-> NoDeployment, early |-> FALSE]

FenceTypeOK ==
  /\ exam \in [deployment : Deployment \cup {NoDeployment}, fenced : BOOLEAN]
  /\ served \subseteq Deployment
  /\ fence \in [Deployment -> {"none", "pending", "acked"}]
  /\ reconciler \in [pc : {"idle", "mark", "ack"}, todo : SUBSET Deployment,
                     dep : Deployment \cup {NoDeployment}]
  /\ client \in [Client -> [dep : Deployment \cup {NoDeployment},
                            early : BOOLEAN]]
  /\ replaced \subseteq Deployment
  /\ troubles \in Nat

FenceInit ==
  /\ exam = [deployment |-> NoDeployment, fenced |-> FALSE]
  /\ served = {}
  /\ fence = [d \in Deployment |-> "none"]
  /\ reconciler = Resting
  /\ client = [c \in Client |-> NoRequest]
  /\ replaced = {}
  /\ troubles = 0

Trouble == troubles < MaxTroubles /\ troubles' = troubles + 1

-----------------------------------------------------------------------------
(* startFenceReconciler: one round.                                        *)

ListFences ==
  /\ reconciler.pc = "idle"
  /\ reconciler' = [Resting EXCEPT !.pc = "mark",
                       !.todo = {d \in Deployment : fence[d] = "pending"}]
  /\ UNCHANGED <<exam, served, fence, client, replaced, troubles>>

(* On to the next fence of the round, or to the end of the round.          *)
Skip(d) == reconciler' = [reconciler EXCEPT !.pc = "mark",
                             !.todo = @ \ {d}, !.dep = NoDeployment]

(* Mutant of Unmarked: an error ends the round.                            *)
GiveUp(d) == reconciler' = Resting

(* Mutant of Unmarked: the acknowledgement is sent all the same.           *)
AckAnyway(d) == reconciler' = [reconciler EXCEPT !.pc = "ack", !.dep = d]

(* A fence that could not be marked is left for the next round.            *)
Unmarked(d) == Skip(d)

(* MarkDeploymentFenced finds the row by its deployment, and fails when it *)
(* changes none.  Marking a row again within the second changes none       *)
(* either; that failure is one of the troubles.                            *)
Mark(d) ==
  /\ reconciler.pc = "mark" /\ d \in reconciler.todo
  /\ \/ /\ exam.deployment = d
        /\ exam' = [exam EXCEPT !.fenced = TRUE]
        /\ replaced' = replaced \ {d}
        /\ reconciler' = [reconciler EXCEPT !.pc = "ack", !.dep = d]
        /\ UNCHANGED troubles
     \/ /\ \/ exam.deployment # d /\ UNCHANGED troubles
           \/ Trouble
        /\ Unmarked(d)
        /\ UNCHANGED <<exam, replaced>>
  /\ UNCHANGED <<served, fence, client>>

Taken(d) == [fence EXCEPT ![d] = "acked"]

(* An acknowledgement that fails may have reached Central.                 *)
Acknowledge ==
  /\ reconciler.pc = "ack"
  /\ \/ fence' = Taken(reconciler.dep) /\ UNCHANGED troubles
     \/ fence' \in {fence, Taken(reconciler.dep)} /\ Trouble
  /\ Skip(reconciler.dep)
  /\ UNCHANGED <<exam, served, client, replaced>>

EndRound ==
  /\ reconciler.pc = "mark" /\ reconciler.todo = {}
  /\ reconciler' = Resting
  /\ UNCHANGED <<exam, served, fence, client, replaced, troubles>>

-----------------------------------------------------------------------------
(* AuthMiddleware looks for a marked row of the token's exam and           *)
(* deployment.  Where there is none, the request goes on to its handler.   *)
Fenced(d) == exam.deployment = d /\ exam.fenced

Admit(c, d) ==
  /\ client[c] = NoRequest
  /\ d \in served
  /\ ~Fenced(d)
  /\ client' = [client EXCEPT ![c] = [dep |-> d,
                                      early |-> fence[d] # "acked"]]
  /\ UNCHANGED <<exam, served, fence, reconciler, replaced, troubles>>

(* The handler's writes, which do not look at the fence again.             *)
Write(c) ==
  /\ client[c] # NoRequest
  /\ client' = [client EXCEPT ![c] = NoRequest]
  /\ UNCHANGED <<exam, served, fence, reconciler, replaced, troubles>>

-----------------------------------------------------------------------------
(* ReplaceBundle deletes the row and inserts one without a mark.           *)
LoadBundle(d) ==
  /\ exam' = [deployment |-> d, fenced |-> FALSE]
  /\ served' = served \cup {d}
  /\ replaced' = replaced \cup {e \in {exam.deployment, d} \cap Deployment :
                                  fence[e] # "none"}
  /\ UNCHANGED <<fence, reconciler, client, troubles>>

RequestFence(d) ==
  /\ fence[d] = "none"
  /\ fence' = [fence EXCEPT ![d] = "pending"]
  /\ UNCHANGED <<exam, served, reconciler, client, replaced, troubles>>

Restart ==
  /\ Trouble
  /\ fence' \in {fence} \cup {Taken(d) : d \in {e \in {reconciler.dep} :
                                                  reconciler.pc = "ack"}}
  /\ reconciler' = Resting
  /\ client' = [c \in Client |-> NoRequest]
  /\ UNCHANGED <<exam, served, replaced>>

-----------------------------------------------------------------------------
Reconcile ==
  \/ ListFences
  \/ \E d \in Deployment : Mark(d)
  \/ Acknowledge
  \/ EndRound

FenceNext ==
  \/ Reconcile
  \/ \E c \in Client : Write(c) \/ \E d \in Deployment : Admit(c, d)
  \/ \E d \in Deployment : LoadBundle(d) \/ RequestFence(d)
  \/ Restart

(* The ticker goes on, and Central answers every call in the end.          *)
FenceFairness == WF_fenceVars(Reconcile)

FenceSpec == FenceInit /\ [][FenceNext]_fenceVars

-----------------------------------------------------------------------------
(* Once Central has the acknowledgement, only those requests still write   *)
(* that were let in before, unless a bundle load has replaced the marked   *)
(* row: no failed mark, lost answer or restart opens the deployment again. *)
AckedIsClosed ==
  [][\A c \in Client :
       Write(c) /\ fence[client[c].dep] = "acked" =>
         client[c].early \/ client[c].dep \in replaced]_fenceVars

(* A fence of the deployment that stays loaded reaches Central, whatever   *)
(* else is pending beside it.                                              *)
FenceIsAcknowledged ==
  \A d \in Deployment :
    <>[](exam.deployment = d) => (fence[d] = "pending" ~> fence[d] = "acked")
=============================================================================
