------------------------------- MODULE Requests -------------------------------
(***************************************************************************)
(* The requests one requester makes and the approvals that decide them.  A *)
(* request is claimed before its item is added: the claim is a lease with  *)
(* a token, renewed while the add runs, and taken over once it is stale.   *)
(* A create may approve itself, within a daily quota.                      *)
(***************************************************************************)
EXTENDS FiniteSets, Naturals

CONSTANTS
  Items,      \* what is asked for: (kind, foreign id)
  Actors,     \* HTTP requests being served, a create or an approval each
  Tokens,     \* claim tokens; one that nothing holds any more stands for a new one
  MaxPending,      \* requests.max_pending_per_user: the cap, and the daily quota
  MaxEvents   \* bound: lapses, crashes, and what others do to the library

ASSUME RequestAssumption ==
  /\ MaxPending \in Nat /\ MaxEvents \in Nat
  /\ IsFiniteSet(Items) /\ "none" \notin Tokens \cup Items

VARIABLES
  request,    \* the requester's row for each item
  inLibrary,  \* items in the library
  actor,      \* what each actor is doing
  lapsed,     \* ghost: actors whose claim went stale while they ran
  events

requestVars == <<request, inLibrary, actor, lapsed, events>>

NoToken == "none"
NoRequest   == [status |-> "absent", token |-> NoToken, fresh |-> FALSE, auto |-> FALSE,
            today |-> FALSE]
Idle    == [pc |-> "idle", item |-> "none", reopen |-> FALSE, token |-> NoToken]

Statuses == {"absent", "pending", "approving", "approved", "declined"}

\* An actor of each pc holds a claim in "add", "complete" and "release".
ActorPcs == {"idle", "insert", "auto", "add", "complete", "release"}

RequestTypeOK ==
  /\ request \in [Items -> [status : Statuses, token : Tokens \cup {NoToken},
                            fresh : BOOLEAN, auto : BOOLEAN, today : BOOLEAN]]
  /\ inLibrary \subseteq Items /\ lapsed \subseteq Actors /\ events \in Nat
  /\ actor \in [Actors -> [pc : ActorPcs, item : Items \cup {"none"}, reopen : BOOLEAN,
                           token : Tokens \cup {NoToken}]]

RequestInit ==
  /\ request = [i \in Items |-> NoRequest] /\ inLibrary = {} /\ lapsed = {} /\ events = 0
  /\ actor = [p \in Actors |-> Idle]

-----------------------------------------------------------------------------

Waiting == {i \in Items : request[i].status \in {"pending", "approving"}}

\* pendingBelowCap
BelowCap == Cardinality(Waiting) < MaxPending

\* countAutoApprovedSince midnight
AutoApproved == {i \in Items : /\ request[i].status = "approved" /\ request[i].auto
                               /\ request[i].today}

Running(p) == actor[p].pc \in {"add", "complete", "release"}

Holds(p) == LET row == request[actor[p].item]
            IN row.status = "approving" /\ row.token = actor[p].token

\* Tokens no row and no actor holds: claimToken draws at random.
NewTokens == Tokens \ ({request[i].token : i \in Items} \cup {actor[p].token : p \in Actors})

Event == events < MaxEvents /\ events' = events + 1

-----------------------------------------------------------------------------
(* Asking. *)

\* RequestHandler.Create up to the provider lookup.
CreateCheck(p, i) ==
  /\ actor[p].pc = "idle" /\ i \notin inLibrary
  /\ request[i].status \in {"absent", "approved"} /\ BelowCap
  /\ actor' = [actor EXCEPT ![p] = [Idle EXCEPT !.pc = "insert", !.item = i,
                                      !.reopen = request[i].status = "approved"]]
  /\ UNCHANGED <<request, inLibrary, lapsed, events>>

\* Mutant: the row is written on the count taken before the lookup.
RoomAsCounted == TRUE

\* The cap inside the INSERT and the UPDATE.
Room == BelowCap

\* The lookup, then Reopen or Create, and whether the account approves itself.
CreateStore(p) ==
  /\ actor[p].pc = "insert"
  /\ LET i    == actor[p].item
         from == IF actor[p].reopen THEN "approved" ELSE "absent"
     IN \/ /\ request[i].status = from /\ Room
           /\ request' = [request EXCEPT ![i] = [NoRequest EXCEPT !.status = "pending"]]
           /\ \E auto \in BOOLEAN :
                actor' = [actor EXCEPT ![p] = IF auto THEN [@ EXCEPT !.pc = "auto"] ELSE Idle]
        \/ /\ actor' = [actor EXCEPT ![p] = Idle] /\ UNCHANGED request
  /\ UNCHANGED <<inLibrary, lapsed, events>>

\* Withdraw
Withdraw(i) ==
  /\ request[i].status = "pending" /\ request' = [request EXCEPT ![i] = NoRequest]
  /\ UNCHANGED <<inLibrary, actor, lapsed, events>>

-----------------------------------------------------------------------------
(* Deciding. *)

\* Mutant: an approval takes a claimed request whether or not the claim is stale.
TakesAnyClaim(i) == request[i].status \in {"pending", "approving"}

\* claimPending's condition.
Claimable(i) == \/ request[i].status = "pending"
                \/ request[i].status = "approving" /\ ~request[i].fresh

TakeClaim(p, i, auto) ==
  LET t == CHOOSE u \in NewTokens : TRUE
  IN
    /\ NewTokens # {}
    /\ request' = [request EXCEPT ![i] = [status |-> "approving", token |-> t, fresh |-> TRUE,
                                          auto |-> auto, today |-> FALSE]]
    /\ actor' = [actor EXCEPT ![p] = [pc |-> "add", item |-> i, reopen |-> FALSE,
                                      token |-> t]]

\* autoApprove: the claim, with the quota in it.
AutoClaim(p) ==
  /\ actor[p].pc = "auto"
  /\ LET i == actor[p].item
     IN IF Claimable(i) /\ Cardinality(AutoApproved) < MaxPending THEN TakeClaim(p, i, TRUE)
        ELSE actor' = [actor EXCEPT ![p] = Idle] /\ UNCHANGED request
  /\ UNCHANGED <<inLibrary, lapsed, events>>

\* Approve, by an admin.
AdminClaim(p, i) ==
  /\ actor[p].pc = "idle" /\ Claimable(i) /\ TakeClaim(p, i, FALSE)
  /\ UNCHANGED <<inLibrary, lapsed, events>>

\* runApproval: refused when the item is there by now, else the add, which may fail.
ApproveAdd(p) ==
  /\ actor[p].pc = "add"
  /\ \/ /\ actor[p].item \notin inLibrary /\ inLibrary' = inLibrary \cup {actor[p].item}
        /\ actor' = [actor EXCEPT ![p].pc = "complete"]
     \/ /\ actor' = [actor EXCEPT ![p].pc = "release"] /\ UNCHANGED inLibrary
  /\ UNCHANGED <<request, lapsed, events>>

\* Mutant: an approval completes the row whoever holds its claim.
MayCompleteAny(p) == TRUE

MayComplete(p) == Holds(p)

\* Complete, and the end of the approval.  The caller may be gone, and the write
\* with it.
ApproveComplete(p) ==
  /\ actor[p].pc = "complete"
  /\ LET i == actor[p].item
     IN \/ /\ MayComplete(p)
           /\ request' = [request EXCEPT ![i] = [status |-> "approved", token |-> NoToken,
                             fresh |-> FALSE, auto |-> request[i].auto, today |-> TRUE]]
        \/ UNCHANGED request
  /\ actor' = [actor EXCEPT ![p] = Idle] /\ lapsed' = lapsed \ {p}
  /\ UNCHANGED <<inLibrary, events>>

\* Release, after a refusal, a failure or a panic of the add.
ApproveRelease(p) ==
  /\ actor[p].pc = "release"
  /\ LET i == actor[p].item
     IN \/ /\ Holds(p)
           /\ request' = [request EXCEPT ![i] = [NoRequest EXCEPT !.status = "pending"]]
        \/ UNCHANGED request
  /\ actor' = [actor EXCEPT ![p] = Idle] /\ lapsed' = lapsed \ {p}
  /\ UNCHANGED <<inLibrary, events>>

\* renewClaim's ticker.
Renew(p) ==
  /\ actor[p].pc = "add" /\ Holds(p) /\ ~request[actor[p].item].fresh
  /\ request' = [request EXCEPT ![actor[p].item].fresh = TRUE]
  /\ lapsed' = lapsed \ {p}
  /\ UNCHANGED <<inLibrary, actor, events>>

Declinable == {"pending"}

Decline(i) ==
  /\ request[i].status \in Declinable
  /\ request' = [request EXCEPT ![i] = [NoRequest EXCEPT !.status = "declined"]]
  /\ UNCHANGED <<inLibrary, actor, lapsed, events>>

-----------------------------------------------------------------------------
(* Time and failures. *)

\* A claim nobody renewed for the TTL: its approval is gone, or could not reach the
\* database for that long.
Lapse(i) ==
  /\ request[i].status = "approving" /\ request[i].fresh
  /\ LET holders == {p \in Actors : Running(p) /\ actor[p].item = i /\ Holds(p)}
     IN /\ IF holders = {} THEN UNCHANGED events ELSE Event
        /\ lapsed' = lapsed \cup holders
  /\ request' = [request EXCEPT ![i].fresh = FALSE]
  /\ UNCHANGED <<inLibrary, actor>>

\* A restart: nothing resets the claims.
RequestCrash ==
  /\ Event /\ actor' = [p \in Actors |-> Idle] /\ lapsed' = {}
  /\ UNCHANGED <<request, inLibrary>>

\* Midnight UTC.
Midnight ==
  /\ AutoApproved # {} /\ Event
  /\ request' = [i \in Items |-> [request[i] EXCEPT !.today = FALSE]]
  /\ UNCHANGED <<inLibrary, actor, lapsed>>

\* Someone adds the item, or removes it.
LibraryMoves(i) ==
  /\ Event
  /\ inLibrary' = IF i \in inLibrary THEN inLibrary \ {i} ELSE inLibrary \cup {i}
  /\ UNCHANGED <<request, actor, lapsed>>

RequestNext ==
  \/ \E i \in Items : Withdraw(i) \/ Decline(i) \/ Lapse(i) \/ LibraryMoves(i)
  \/ \E p \in Actors, i \in Items : CreateCheck(p, i) \/ AdminClaim(p, i)
  \/ \E p \in Actors :
       \/ CreateStore(p) \/ AutoClaim(p) \/ ApproveAdd(p) \/ ApproveComplete(p)
       \/ ApproveRelease(p) \/ Renew(p)
  \/ RequestCrash \/ Midnight

RequestSpec == RequestInit /\ [][RequestNext]_requestVars

-----------------------------------------------------------------------------
(* Properties. *)

\* However many creates, reopenings and released claims cross, no more requests wait
\* for a decision than the requester's cap allows (pendingBelowCap).
PendingWithinCap == Cardinality(Waiting) <= MaxPending

\* An approval whose claim has not lapsed holds its row until it ends: no other
\* approval, decline or withdrawal takes the request from under the add it runs.
ClaimIsKept ==
  \A p \in Actors : Running(p) /\ p \notin lapsed => Holds(p)

\* A request becomes approved only by the approval that holds it, and only after
\* that approval has added the item.
ApprovedByItsHolder ==
  [][\A i \in Items :
       (request[i].status # "approved" /\ request'[i].status = "approved")
         => \E p \in Actors : /\ actor[p].pc = "complete" /\ actor[p].item = i
                              /\ Holds(p)]_requestVars

\* Claim: "The count is part of the claim, not a separate read, so a burst of creates
\* cannot all pass it" (autoApprove).
AutoApprovedWithinQuota == Cardinality(AutoApproved) <= MaxPending

==============================================================================
