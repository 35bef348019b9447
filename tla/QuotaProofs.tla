----------------------------- MODULE QuotaProofs -----------------------------
(***************************************************************************)
(* The two quotas, a requester's and an indexer's.  Requests and their     *)
(* approvals, for any number of items, of approvals at work and of tokens: *)
(* the cap is never passed and a claim is kept.  The query cap of an       *)
(* indexer, for any number of legs, any window and any ladder; it is a sum *)
(* over the hours, so the facts about sums come first.                     *)
(***************************************************************************)
EXTENDS Requests, IndexerLimits, FiniteSetTheorems, WellFoundedInduction, TLAPS

\* What an actor works on, and that no two hold the same token.
ActorInv ==
  /\ \A p \in Actors : actor[p].pc # "idle" => actor[p].item \in Items
  /\ \A p \in Actors : Running(p) => actor[p].token \in Tokens
  /\ \A p, q \in Actors :
       Running(p) /\ Running(q) /\ actor[p].token = actor[q].token => p = q

\* A claim that has not lapsed is fresh in the row: only a stale one is taken over.
FreshInv ==
  \A p \in Actors : Running(p) /\ p \notin lapsed => request[actor[p].item].fresh

RInv == RequestTypeOK /\ ActorInv /\ FreshInv /\ ClaimIsKept /\ PendingWithinCap

-----------------------------------------------------------------------------

\* A claim taken: a row of its own token, and the actor that holds it.
LEMMA ClaimEffect ==
  ASSUME RequestTypeOK, NEW p \in Actors, NEW i \in Items, NEW auto \in BOOLEAN,
         TakeClaim(p, i, auto)
  PROVE  \E t \in NewTokens :
           /\ request' = [request EXCEPT ![i] = [status |-> "approving", token |-> t,
                            fresh |-> TRUE, auto |-> auto, today |-> FALSE]]
           /\ actor' = [actor EXCEPT ![p] = [pc |-> "add", item |-> i, reopen |-> FALSE,
                                             token |-> t]]
<1> DEFINE t == CHOOSE u \in NewTokens : TRUE
<1>1. t \in NewTokens
  BY DEF TakeClaim
<1> QED BY <1>1 DEF TakeClaim

\* Nothing is asked for at the start.
LEMMA RequestInitInv == RequestInit => RInv
<1> SUFFICES ASSUME RequestInit PROVE RInv
  OBVIOUS
<1>1. RequestTypeOK
  BY RequestAssumption DEF RequestInit, RequestTypeOK, NoRequest, Idle, NoToken, Statuses,
     ActorPcs
<1>2. \A p \in Actors : actor[p].pc = "idle" /\ ~Running(p)
  BY DEF RequestInit, Idle, Running
<1>3. Waiting = {}
  BY DEF RequestInit, Waiting, NoRequest
<1>4. PendingWithinCap
  BY <1>3, FS_EmptySet, RequestAssumption DEF PendingWithinCap
<1> QED BY <1>1, <1>2, <1>4 DEF RInv, ActorInv, FreshInv, ClaimIsKept

\* Every step keeps the types.
LEMMA RequestTypeStep ==
  ASSUME RequestTypeOK, ActorInv, [RequestNext]_requestVars
  PROVE  RequestTypeOK'
<1> DEFINE Rows == [status : Statuses, token : Tokens \cup {NoToken}, fresh : BOOLEAN,
                    auto : BOOLEAN, today : BOOLEAN]
           Doing == [pc : ActorPcs, item : Items \cup {"none"}, reopen : BOOLEAN,
                     token : Tokens \cup {NoToken}]
<1>a. /\ request \in [Items -> Rows] /\ actor \in [Actors -> Doing]
      /\ inLibrary \subseteq Items /\ lapsed \subseteq Actors /\ events \in Nat
  BY DEF RequestTypeOK
<1>b. /\ NoRequest \in Rows /\ Idle \in Doing
      /\ \A s \in Statuses : [NoRequest EXCEPT !.status = s] \in Rows
  BY DEF NoRequest, Idle, NoToken, Statuses, ActorPcs
<1>c. /\ \A r \in Rows : [r EXCEPT !.fresh = FALSE] \in Rows
      /\ \A r \in Rows : [r EXCEPT !.fresh = TRUE] \in Rows
      /\ \A r \in Rows : [r EXCEPT !.today = FALSE] \in Rows
  OBVIOUS
<1>g. \A r \in Rows : [status |-> "approved", token |-> NoToken, fresh |-> FALSE,
                      auto |-> r.auto, today |-> TRUE] \in Rows
  BY DEF Statuses
<1>d. \A x \in Doing, s \in ActorPcs : [x EXCEPT !.pc = s] \in Doing
  OBVIOUS
<1>e. \A i \in Items, re \in BOOLEAN :
        [Idle EXCEPT !.pc = "insert", !.item = i, !.reopen = re] \in Doing
  BY DEF Idle, ActorPcs, NoToken
<1>f. ASSUME request' \in [Items -> Rows], actor' \in [Actors -> Doing],
             inLibrary' \subseteq Items, lapsed' \subseteq Actors, events' \in Nat
      PROVE  RequestTypeOK'
  BY <1>f DEF RequestTypeOK
<1> HIDE DEF Rows, Doing
<1>s. "pending" \in Statuses /\ "declined" \in Statuses
  BY DEF Statuses
<1>p. \A s \in {"auto", "complete", "release"} : s \in ActorPcs
  BY DEF ActorPcs
<1> USE <1>a, <1>f
<1>1. ASSUME NEW i \in Items, Withdraw(i) \/ Decline(i) \/ Lapse(i) \/ LibraryMoves(i)
      PROVE  RequestTypeOK'
  <2>1. CASE Withdraw(i)
    BY <1>b, <2>1 DEF Withdraw
  <2>2. CASE Decline(i)
    BY <1>b, <1>s, <2>2 DEF Decline
  <2>3. CASE Lapse(i)
    <3>1. lapsed' \subseteq Actors /\ events' \in Nat
      BY <2>3 DEF Lapse, Event
    <3>2. request' \in [Items -> Rows]
      BY <1>c, <2>3 DEF Lapse
    <3> QED BY <2>3, <3>1, <3>2 DEF Lapse
  <2>4. CASE LibraryMoves(i)
    BY <2>4 DEF LibraryMoves, Event
  <2> QED BY <1>1, <2>1, <2>2, <2>3, <2>4
<1>2. ASSUME NEW p \in Actors, NEW i \in Items, CreateCheck(p, i) PROVE RequestTypeOK'
  BY <1>2, <1>e DEF CreateCheck
<1>3. ASSUME NEW p \in Actors, NEW i \in Items, NEW auto \in BOOLEAN, TakeClaim(p, i, auto),
             UNCHANGED <<inLibrary, lapsed, events>>
      PROVE  RequestTypeOK'
  <2>1. PICK t \in Tokens :
          /\ request' = [request EXCEPT ![i] = [status |-> "approving", token |-> t,
                           fresh |-> TRUE, auto |-> auto, today |-> FALSE]]
          /\ actor' = [actor EXCEPT ![p] = [pc |-> "add", item |-> i, reopen |-> FALSE,
                                            token |-> t]]
    BY <1>3, ClaimEffect DEF NewTokens
  <2>2. /\ [status |-> "approving", token |-> t, fresh |-> TRUE, auto |-> auto,
            today |-> FALSE] \in Rows
        /\ [pc |-> "add", item |-> i, reopen |-> FALSE, token |-> t] \in Doing
    BY DEF Rows, Doing, Statuses, ActorPcs
  <2> QED BY <1>3, <2>1, <2>2
<1>4. ASSUME NEW p \in Actors, NEW i \in Items, AdminClaim(p, i) PROVE RequestTypeOK'
  BY <1>3, <1>4 DEF AdminClaim
<1>5. ASSUME NEW p \in Actors, CreateStore(p) PROVE RequestTypeOK'
  <2>1. request' \in [Items -> Rows]
    BY <1>b, <1>s, <1>5 DEF CreateStore
  <2>2. actor' \in [Actors -> Doing]
    BY <1>b, <1>d, <1>p, <1>5 DEF CreateStore
  <2> QED BY <1>5, <2>1, <2>2 DEF CreateStore
<1>6. ASSUME NEW p \in Actors, AutoClaim(p) PROVE RequestTypeOK'
  <2>1. actor[p].item \in Items
    BY <1>6 DEF AutoClaim, ActorInv
  <2>2. CASE TakeClaim(p, actor[p].item, TRUE)
    BY <1>3, <1>6, <2>1, <2>2 DEF AutoClaim
  <2>3. CASE actor' = [actor EXCEPT ![p] = Idle] /\ UNCHANGED request
    BY <1>b, <1>6, <2>3 DEF AutoClaim
  <2> QED BY <1>6, <2>2, <2>3 DEF AutoClaim
<1>7. ASSUME NEW p \in Actors, ApproveAdd(p) PROVE RequestTypeOK'
  <2>1. actor[p].item \in Items
    BY <1>7 DEF ApproveAdd, ActorInv
  <2>2. actor' \in [Actors -> Doing]
    BY <1>d, <1>p, <1>7 DEF ApproveAdd
  <2>3. inLibrary' \subseteq Items
    BY <1>7, <2>1 DEF ApproveAdd
  <2> QED BY <1>7, <2>2, <2>3 DEF ApproveAdd
<1>8. ASSUME NEW p \in Actors, ApproveComplete(p) PROVE RequestTypeOK'
  <2>1. request' \in [Items -> Rows]
    BY <1>g, <1>8 DEF ApproveComplete
  <2> QED BY <1>b, <1>8, <2>1 DEF ApproveComplete
<1>9. ASSUME NEW p \in Actors, ApproveRelease(p) PROVE RequestTypeOK'
  BY <1>b, <1>s, <1>9 DEF ApproveRelease
<1>10. ASSUME NEW p \in Actors, Renew(p) PROVE RequestTypeOK'
  BY <1>c, <1>10 DEF Renew
<1>11. CASE RequestCrash
  BY <1>b, <1>11 DEF RequestCrash, Event
<1>12. CASE Midnight
  BY <1>c, <1>12 DEF Midnight, Event
<1>13. CASE UNCHANGED requestVars
  BY <1>13 DEF requestVars
<1> QED BY <1>1, <1>2, <1>4, <1>5, <1>6, <1>7, <1>8, <1>9, <1>10, <1>11, <1>12, <1>13
        DEF RequestNext

-----------------------------------------------------------------------------

\* Who holds a claim, as a step leaves it: the actors at work hold what they held,
\* and a claim that is taken has a token of its own.
LEMMA ActorStep ==
  ASSUME RInv, [RequestNext]_requestVars
  PROVE  ActorInv'
<1>a. /\ actor \in [Actors -> [pc : ActorPcs, item : Items \cup {"none"}, reopen : BOOLEAN,
                              token : Tokens \cup {NoToken}]]
      /\ ActorInv
  BY DEF RInv, RequestTypeOK
<1>i. Idle.pc = "idle"
  BY DEF Idle
<1>1. ASSUME NEW p \in Actors, NEW i \in Items, NEW auto \in BOOLEAN, TakeClaim(p, i, auto)
      PROVE  ActorInv'
  <2>1. PICK t \in NewTokens :
          actor' = [actor EXCEPT ![p] = [pc |-> "add", item |-> i, reopen |-> FALSE,
                                         token |-> t]]
    BY <1>1, ClaimEffect DEF RInv
  <2>2. \A q \in Actors : actor[q].token # t
    BY <2>1 DEF NewTokens
  <2>3. t \in Tokens
    BY <2>1 DEF NewTokens
  <2> QED BY <1>a, <2>1, <2>2, <2>3 DEF ActorInv, Running
<1>2. ASSUME NEW p \in Actors, actor' = [actor EXCEPT ![p] = Idle] PROVE ActorInv'
  BY <1>a, <1>i, <1>2 DEF ActorInv, Running
<1>3. ASSUME UNCHANGED actor PROVE ActorInv'
  BY <1>a, <1>3 DEF ActorInv, Running
<1>4. ASSUME NEW i \in Items, Withdraw(i) \/ Decline(i) \/ Lapse(i) \/ LibraryMoves(i)
      PROVE  ActorInv'
  BY <1>3, <1>4 DEF Withdraw, Decline, Lapse, LibraryMoves
<1>5. ASSUME NEW p \in Actors, NEW i \in Items, CreateCheck(p, i) PROVE ActorInv'
  <2>1. /\ \A q \in Actors : q # p => actor'[q] = actor[q]
        /\ actor'[p].pc = "insert" /\ actor'[p].item = i
    BY <1>a, <1>5 DEF CreateCheck, Idle
  <2> QED BY <1>a, <2>1 DEF ActorInv, Running
<1>6. ASSUME NEW p \in Actors, NEW i \in Items, AdminClaim(p, i) PROVE ActorInv'
  BY <1>1, <1>6 DEF AdminClaim
<1>7. ASSUME NEW p \in Actors, CreateStore(p) PROVE ActorInv'
  <2>1. ASSUME actor' = [actor EXCEPT ![p].pc = "auto"] PROVE ActorInv'
    BY <1>a, <1>7, <2>1 DEF ActorInv, Running, CreateStore
  <2> QED BY <1>2, <1>7, <2>1 DEF CreateStore
<1>8. ASSUME NEW p \in Actors, AutoClaim(p) PROVE ActorInv'
  <2>1. actor[p].item \in Items
    BY <1>8, <1>a DEF AutoClaim, ActorInv
  <2> QED BY <1>1, <1>2, <1>8, <2>1 DEF AutoClaim
<1>9. ASSUME NEW p \in Actors, ApproveAdd(p) PROVE ActorInv'
  <2>1. /\ \A q \in Actors : q # p => actor'[q] = actor[q]
        /\ actor'[p].pc \in {"complete", "release"}
        /\ actor'[p].item = actor[p].item /\ actor'[p].token = actor[p].token
        /\ actor[p].pc = "add"
    BY <1>a, <1>9 DEF ApproveAdd
  <2> QED BY <1>a, <2>1 DEF ActorInv, Running
<1>10. ASSUME NEW p \in Actors, ApproveComplete(p) \/ ApproveRelease(p) PROVE ActorInv'
  BY <1>2, <1>10 DEF ApproveComplete, ApproveRelease
<1>11. ASSUME NEW p \in Actors, Renew(p) PROVE ActorInv'
  BY <1>3, <1>11 DEF Renew
<1>12. CASE RequestCrash
  BY <1>i, <1>12 DEF RequestCrash, ActorInv, Running
<1>13. CASE Midnight
  BY <1>3, <1>13 DEF Midnight
<1>14. CASE UNCHANGED requestVars
  BY <1>3, <1>14 DEF requestVars
<1> QED BY <1>4, <1>5, <1>6, <1>7, <1>8, <1>9, <1>10, <1>11, <1>12, <1>13, <1>14 DEF RequestNext

\* A claim that has not lapsed is fresh in the row that carries its token.
Firm(p) == Holds(p) /\ request[actor[p].item].fresh

\* No step takes a firm claim from the actor it belongs to.
LEMMA ClaimStep ==
  ASSUME RInv, RequestTypeOK', ActorInv', [RequestNext]_requestVars
  PROVE  (FreshInv /\ ClaimIsKept)'
<1>a. /\ request \in [Items -> [status : Statuses, token : Tokens \cup {NoToken},
                               fresh : BOOLEAN, auto : BOOLEAN, today : BOOLEAN]]
      /\ actor \in [Actors -> [pc : ActorPcs, item : Items \cup {"none"}, reopen : BOOLEAN,
                              token : Tokens \cup {NoToken}]]
      /\ \A p \in Actors : Running(p) => actor[p].item \in Items
      /\ \A p, q \in Actors :
           Running(p) /\ Running(q) /\ actor[p].token = actor[q].token => p = q
  BY DEF RInv, RequestTypeOK, ActorInv, Running
<1>b. \A p \in Actors : Running(p) /\ p \notin lapsed => Firm(p)
  BY DEF RInv, FreshInv, ClaimIsKept, Firm
<1>i. ~ (Idle.pc \in {"add", "complete", "release"})
  BY DEF Idle
<1> SUFFICES ASSUME NEW q \in Actors, Running(q)', (q \notin lapsed)'
             PROVE  Firm(q)'
  BY DEF FreshInv, ClaimIsKept, Firm
\* What leaves the actor, its row's claim, or its lapse alone.
<1>k. ASSUME Running(q), q \notin lapsed, actor'[q].item = actor[q].item,
             actor'[q].token = actor[q].token,
             request'[actor[q].item].status = request[actor[q].item].status,
             request'[actor[q].item].token = request[actor[q].item].token,
             request'[actor[q].item].fresh = request[actor[q].item].fresh
      PROVE  Firm(q)'
  BY <1>b, <1>k DEF Firm, Holds
<1>1. ASSUME NEW p \in Actors, NEW i \in Items, NEW auto \in BOOLEAN, TakeClaim(p, i, auto),
             Claimable(i), UNCHANGED lapsed
      PROVE  Firm(q)'
  <2>1. PICK t \in NewTokens :
          /\ request' = [request EXCEPT ![i] = [status |-> "approving", token |-> t,
                           fresh |-> TRUE, auto |-> auto, today |-> FALSE]]
          /\ actor' = [actor EXCEPT ![p] = [pc |-> "add", item |-> i, reopen |-> FALSE,
                                            token |-> t]]
    BY <1>1, ClaimEffect DEF RInv
  <2>2. CASE q = p
    BY <1>a, <2>1, <2>2 DEF Firm, Holds
  <2>3. CASE q # p
    <3>1. actor'[q] = actor[q] /\ Running(q) /\ q \notin lapsed
      BY <1>1, <1>a, <2>1, <2>3 DEF Running
    <3>2. actor[q].item # i
      BY <1>1, <1>b, <3>1 DEF Claimable, Firm, Holds
    <3> QED BY <1>k, <1>a, <2>1, <3>1, <3>2
  <2> QED BY <2>2, <2>3
\* An actor that ends leaves the rows of the others alone, unless it holds the claim.
<1>2. ASSUME NEW p \in Actors, Running(p), actor' = [actor EXCEPT ![p] = Idle],
             lapsed' = lapsed \ {p},
             \A i \in Items : i # actor[p].item => request'[i] = request[i],
             ~Holds(p) => UNCHANGED request
      PROVE  Firm(q)'
  <2>1. q # p /\ actor'[q] = actor[q] /\ Running(q) /\ q \notin lapsed
    BY <1>2, <1>a, <1>i DEF Running
  <2>2. actor[q].item \in Items /\ Firm(q)
    BY <1>a, <1>b, <2>1
  <2>3. request'[actor[q].item] = request[actor[q].item]
    <3>1. CASE actor[q].item # actor[p].item
      BY <1>2, <2>2, <3>1
    <3>2. CASE actor[q].item = actor[p].item
      BY <1>2, <1>a, <2>1, <2>2, <3>2 DEF Firm, Holds
    <3> QED BY <3>1, <3>2
  <2> QED BY <1>k, <2>1, <2>3
\* Other actors' steps, and the steps of time: the row of a firm claim is left alone.
<1>3. ASSUME NEW i \in Items, Withdraw(i) \/ Decline(i) \/ LibraryMoves(i) PROVE Firm(q)'
  <2>1. Running(q) /\ q \notin lapsed /\ actor' = actor
    BY <1>3 DEF Withdraw, Decline, LibraryMoves, Running
  <2>2. actor[q].item \in Items /\ Firm(q)
    BY <1>a, <1>b, <2>1
  <2>3. request'[actor[q].item] = request[actor[q].item]
    BY <1>3, <1>a, <2>2 DEF Withdraw, Decline, Declinable, LibraryMoves, Firm, Holds
  <2> QED BY <1>k, <2>1, <2>3
<1>4. ASSUME NEW i \in Items, Lapse(i) PROVE Firm(q)'
  <2>1. Running(q) /\ q \notin lapsed /\ actor' = actor
    BY <1>4 DEF Lapse, Running
  <2>2. actor[q].item \in Items /\ Firm(q)
    BY <1>a, <1>b, <2>1
  <2>3. actor[q].item # i
    BY <1>4, <2>1, <2>2 DEF Lapse, Firm
  <2>4. request'[actor[q].item] = request[actor[q].item]
    BY <1>4, <1>a, <2>2, <2>3 DEF Lapse
  <2> QED BY <1>k, <2>1, <2>4
<1>5. ASSUME NEW p \in Actors, NEW i \in Items, CreateCheck(p, i) PROVE Firm(q)'
  <2>1. q # p
    BY <1>5, <1>a DEF CreateCheck, Running, Idle
  <2> QED BY <1>5, <1>a, <1>k, <2>1 DEF CreateCheck, Running
<1>6. ASSUME NEW p \in Actors, NEW i \in Items, AdminClaim(p, i) PROVE Firm(q)'
  BY <1>1, <1>6 DEF AdminClaim
<1>7. ASSUME NEW p \in Actors, CreateStore(p) PROVE Firm(q)'
  <2>1. q # p /\ actor'[q] = actor[q] /\ Running(q) /\ q \notin lapsed
    BY <1>7, <1>a, <1>i DEF CreateStore, Running
  <2>2. actor[q].item \in Items /\ Firm(q)
    BY <1>a, <1>b, <2>1
  <2>3. request'[actor[q].item] = request[actor[q].item]
    BY <1>7, <1>a, <2>2 DEF CreateStore, Firm, Holds
  <2> QED BY <1>k, <2>1, <2>3
<1>8. ASSUME NEW p \in Actors, AutoClaim(p) PROVE Firm(q)'
  <2>1. actor[p].item \in Items
    BY <1>8 DEF AutoClaim, RInv, ActorInv
  <2>2. CASE Claimable(actor[p].item) /\ TakeClaim(p, actor[p].item, TRUE)
    BY <1>1, <1>8, <2>1, <2>2 DEF AutoClaim
  <2>3. CASE actor' = [actor EXCEPT ![p] = Idle] /\ UNCHANGED request
    <3>1. q # p /\ actor'[q] = actor[q] /\ Running(q) /\ q \notin lapsed
      BY <1>8, <1>a, <1>i, <2>3 DEF AutoClaim, Running
    <3> QED BY <1>k, <2>3, <3>1
  <2> QED BY <1>8, <2>2, <2>3 DEF AutoClaim
<1>9. ASSUME NEW p \in Actors, ApproveAdd(p) PROVE Firm(q)'
  <2>1. Running(q) /\ q \notin lapsed /\ request' = request
        /\ actor'[q].item = actor[q].item /\ actor'[q].token = actor[q].token
    BY <1>9, <1>a DEF ApproveAdd, Running
  <2> QED BY <1>k, <2>1
<1>10. ASSUME NEW p \in Actors, ApproveComplete(p) PROVE Firm(q)'
  <2>1. Running(p) /\ actor[p].item \in Items
    BY <1>10, <1>a DEF ApproveComplete, Running
  <2>2. /\ \A i \in Items : i # actor[p].item => request'[i] = request[i]
        /\ ~Holds(p) => UNCHANGED request
    BY <1>10, <1>a, <2>1 DEF ApproveComplete, MayComplete
  <2> QED BY <1>2, <1>10, <2>1, <2>2 DEF ApproveComplete
<1>11. ASSUME NEW p \in Actors, ApproveRelease(p) PROVE Firm(q)'
  <2>1. Running(p) /\ actor[p].item \in Items
    BY <1>11, <1>a DEF ApproveRelease, Running
  <2>2. /\ \A i \in Items : i # actor[p].item => request'[i] = request[i]
        /\ ~Holds(p) => UNCHANGED request
    BY <1>11, <1>a, <2>1 DEF ApproveRelease
  <2> QED BY <1>2, <1>11, <2>1, <2>2 DEF ApproveRelease
<1>12. ASSUME NEW p \in Actors, Renew(p) PROVE Firm(q)'
  <2>1. /\ Running(q) /\ actor' = actor /\ Running(p) /\ Holds(p)
        /\ actor[p].item \in Items /\ actor[q].item \in Items
    BY <1>12, <1>a DEF Renew, Running
  <2>2. CASE q = p
    BY <1>12, <1>a, <2>1, <2>2 DEF Renew, Firm, Holds
  <2>3. CASE q # p
    <3>1. q \notin lapsed /\ Firm(q)
      BY <1>12, <1>b, <2>1, <2>3 DEF Renew
    <3>2. actor[q].item # actor[p].item
      BY <1>a, <2>1, <2>3, <3>1 DEF Firm, Holds
    <3>3. request'[actor[q].item] = request[actor[q].item]
      BY <1>12, <1>a, <2>1, <3>2 DEF Renew
    <3> QED BY <1>k, <2>1, <3>1, <3>3
  <2> QED BY <2>2, <2>3
<1>13. CASE RequestCrash
  BY <1>13, <1>i DEF RequestCrash, Running
<1>14. CASE Midnight
  <2>1. Running(q) /\ q \notin lapsed /\ actor' = actor
    BY <1>14 DEF Midnight, Running
  <2>2. actor[q].item \in Items
    BY <1>a, <2>1
  <2>3. request'[actor[q].item] = [request[actor[q].item] EXCEPT !.today = FALSE]
    BY <1>14, <2>2 DEF Midnight
  <2> QED BY <1>a, <1>k, <2>1, <2>2, <2>3
<1>15. CASE UNCHANGED requestVars
  BY <1>15, <1>k DEF requestVars, Running
<1> QED BY <1>3, <1>4, <1>5, <1>6, <1>7, <1>8, <1>9, <1>10, <1>11, <1>12, <1>13, <1>14, <1>15
        DEF RequestNext

-----------------------------------------------------------------------------

\* Adding one element adds at most one to the size of a finite set.
LEMMA OneMore ==
  ASSUME NEW S, NEW x, IsFiniteSet(S)
  PROVE  IsFiniteSet(S \cup {x}) /\ Cardinality(S \cup {x}) <= Cardinality(S) + 1
<1>1. Cardinality(S) \in Nat
  BY FS_CardinalityType
<1>2. CASE x \in S
  <2>1. S \cup {x} = S
    BY <1>2
  <2>2. IsFiniteSet(S \cup {x})
    BY FS_AddElement
  <2>3. Cardinality(S \cup {x}) = Cardinality(S)
    BY <1>2, FS_AddElement
  <2> QED BY <1>1, <2>2, <2>3
<1>3. CASE x \notin S
  BY <1>1, <1>3, FS_AddElement
<1> QED BY <1>2, <1>3

\* The requests that wait are a finite set, so that their number is a number.
LEMMA WaitingFinite ==
  /\ IsFiniteSet(Waiting) /\ Cardinality(Waiting) \in Nat
  /\ IsFiniteSet(Waiting') /\ Cardinality(Waiting') \in Nat
<1>1. Waiting \subseteq Items /\ Waiting' \subseteq Items
  BY DEF Waiting
<1> QED BY <1>1, FS_Subset, FS_CardinalityType, RequestAssumption

\* No step makes more requests wait than the cap leaves room for.
LEMMA CapStep ==
  ASSUME RInv, [RequestNext]_requestVars
  PROVE  PendingWithinCap'
<1>a. request \in [Items -> [status : Statuses, token : Tokens \cup {NoToken},
                             fresh : BOOLEAN, auto : BOOLEAN, today : BOOLEAN]]
  BY DEF RInv, RequestTypeOK
<1>1. ASSUME Waiting' \subseteq Waiting PROVE PendingWithinCap'
  <2>1. Cardinality(Waiting') <= Cardinality(Waiting)
    BY <1>1, WaitingFinite, FS_Subset
  <2>2. Cardinality(Waiting) <= MaxPending
    BY DEF RInv, PendingWithinCap
  <2> QED BY <2>1, <2>2, WaitingFinite, RequestAssumption DEF PendingWithinCap
\* A row that only moves between the statuses that wait, or out of them.
<1>2. ASSUME \A i \in Items : request'[i].status \in {"pending", "approving"}
                                => request[i].status \in {"pending", "approving"}
      PROVE  PendingWithinCap'
  <2>1. Waiting' \subseteq Waiting
    BY <1>2 DEF Waiting
  <2> QED BY <1>1, <2>1
<1>3. ASSUME UNCHANGED request PROVE PendingWithinCap'
  BY <1>2, <1>3
<1>4. ASSUME NEW p \in Actors, NEW i \in Items, NEW auto \in BOOLEAN, Claimable(i),
             TakeClaim(p, i, auto)
      PROVE  PendingWithinCap'
  BY <1>2, <1>4, <1>a DEF TakeClaim, Claimable
<1>5. ASSUME NEW i \in Items, Withdraw(i) PROVE PendingWithinCap'
  BY <1>2, <1>5, <1>a DEF Withdraw, NoRequest
<1>6. ASSUME NEW i \in Items, Decline(i) PROVE PendingWithinCap'
  BY <1>2, <1>6, <1>a DEF Decline, NoRequest
<1>7. ASSUME NEW i \in Items, Lapse(i) PROVE PendingWithinCap'
  BY <1>2, <1>7, <1>a DEF Lapse
<1>8. ASSUME NEW p \in Actors, CreateStore(p) PROVE PendingWithinCap'
  <2>1. CASE UNCHANGED request
    BY <1>3, <2>1
  <2>2. CASE BelowCap /\ request' = [request EXCEPT ![actor[p].item] =
                                      [NoRequest EXCEPT !.status = "pending"]]
    <3>1. Waiting' \subseteq Waiting \cup {actor[p].item}
      BY <2>2, <1>a DEF Waiting
    <3>2. IsFiniteSet(Waiting \cup {actor[p].item})
          /\ Cardinality(Waiting \cup {actor[p].item}) <= Cardinality(Waiting) + 1
      BY WaitingFinite, OneMore
    <3>3. Cardinality(Waiting') <= Cardinality(Waiting \cup {actor[p].item})
      BY <3>1, <3>2, FS_Subset
    <3>4. Cardinality(Waiting \cup {actor[p].item}) \in Nat
      BY <3>2, FS_CardinalityType
    <3>5. Cardinality(Waiting) < MaxPending
      BY <2>2 DEF BelowCap
    <3> QED BY <3>2, <3>3, <3>4, <3>5, WaitingFinite, RequestAssumption DEF PendingWithinCap
  <2> QED BY <1>8, <2>1, <2>2 DEF CreateStore, Room
<1>9. ASSUME NEW p \in Actors, NEW i \in Items, AdminClaim(p, i) PROVE PendingWithinCap'
  BY <1>4, <1>9 DEF AdminClaim
<1>10. ASSUME NEW p \in Actors, AutoClaim(p) PROVE PendingWithinCap'
  <2>1. actor[p].item \in Items
    BY <1>10 DEF AutoClaim, RInv, ActorInv
  <2> QED BY <1>3, <1>4, <1>10, <2>1 DEF AutoClaim
<1>11. ASSUME NEW p \in Actors, ApproveComplete(p) PROVE PendingWithinCap'
  BY <1>2, <1>3, <1>11, <1>a DEF ApproveComplete
<1>12. ASSUME NEW p \in Actors, ApproveRelease(p) PROVE PendingWithinCap'
  BY <1>2, <1>3, <1>12, <1>a DEF ApproveRelease, Holds
<1>13. ASSUME NEW p \in Actors, Renew(p) PROVE PendingWithinCap'
  BY <1>2, <1>13, <1>a DEF Renew
<1>14. CASE Midnight
  BY <1>2, <1>14, <1>a DEF Midnight
<1>15. ASSUME NEW p \in Actors, NEW i \in Items, CreateCheck(p, i) PROVE PendingWithinCap'
  BY <1>3, <1>15 DEF CreateCheck
<1>16. ASSUME NEW p \in Actors, ApproveAdd(p) PROVE PendingWithinCap'
  BY <1>3, <1>16 DEF ApproveAdd
<1>17. ASSUME NEW i \in Items, LibraryMoves(i) PROVE PendingWithinCap'
  BY <1>3, <1>17 DEF LibraryMoves
<1>18. CASE RequestCrash \/ UNCHANGED requestVars
  BY <1>3, <1>18 DEF RequestCrash, requestVars
<1> QED BY <1>5, <1>6, <1>7, <1>8, <1>9, <1>10, <1>11, <1>12, <1>13, <1>14, <1>15, <1>16,
           <1>17, <1>18 DEF RequestNext

-----------------------------------------------------------------------------

\* The inductive invariant of the requests.
THEOREM RequestInvariant == RequestSpec => []RInv
<1>1. RInv /\ [RequestNext]_requestVars => RInv'
  <2> SUFFICES ASSUME RInv, [RequestNext]_requestVars PROVE RInv'
    OBVIOUS
  <2>1. RequestTypeOK'
    BY RequestTypeStep DEF RInv
  <2>2. ActorInv'
    BY ActorStep
  <2>3. FreshInv' /\ ClaimIsKept'
    BY <2>1, <2>2, ClaimStep
  <2>4. PendingWithinCap'
    BY CapStep
  <2> QED BY <2>1, <2>2, <2>3, <2>4 DEF RInv
<1> QED BY <1>1, RequestInitInv, PTL DEF RequestSpec

\* The cap of pendingBelowCap holds through every crossing of creates, reopenings,
\* approvals and releases, for any cap and any number of approvals at work.
THEOREM CapAlwaysKept == RequestSpec => []PendingWithinCap
<1>1. RInv => PendingWithinCap
  BY DEF RInv
<1> QED BY <1>1, RequestInvariant, PTL

\* claimPending, RenewClaim, Complete and Release: the token and the lease keep a
\* request to the approval that claimed it, until that approval ends or its claim
\* lapses.
THEOREM ClaimAlwaysKept == RequestSpec => []ClaimIsKept
<1>1. RInv => ClaimIsKept
  BY DEF RInv
<1> QED BY <1>1, RequestInvariant, PTL

\* Only Complete, by the approval that holds the row, makes a request approved.
LEMMA ApprovalStep ==
  ASSUME RInv, [RequestNext]_requestVars, NEW i \in Items,
         request[i].status # "approved", request'[i].status = "approved"
  PROVE  \E p \in Actors : /\ actor[p].pc = "complete" /\ actor[p].item = i
                           /\ Holds(p)
<1>a. request \in [Items -> [status : Statuses, token : Tokens \cup {NoToken},
                             fresh : BOOLEAN, auto : BOOLEAN, today : BOOLEAN]]
  BY DEF RInv, RequestTypeOK
<1>1. ASSUME NEW p \in Actors, ApproveComplete(p)
      PROVE  \E q \in Actors : actor[q].pc = "complete" /\ actor[q].item = i /\ Holds(q)
  BY <1>1, <1>a DEF ApproveComplete, MayComplete
<1>2. ASSUME NEW j \in Items, Withdraw(j) \/ Decline(j) \/ Lapse(j) \/ LibraryMoves(j)
      PROVE  FALSE
  BY <1>2, <1>a DEF Withdraw, Decline, Lapse, LibraryMoves, NoRequest
<1>3. ASSUME NEW p \in Actors, NEW j \in Items, NEW auto \in BOOLEAN, TakeClaim(p, j, auto)
      PROVE  FALSE
  BY <1>3, <1>a DEF TakeClaim
<1>4. ASSUME NEW p \in Actors, NEW j \in Items, CreateCheck(p, j) \/ AdminClaim(p, j)
      PROVE  FALSE
  BY <1>3, <1>4 DEF CreateCheck, AdminClaim
<1>5. ASSUME NEW p \in Actors, CreateStore(p) PROVE FALSE
  BY <1>5, <1>a DEF CreateStore, NoRequest
<1>6. ASSUME NEW p \in Actors, AutoClaim(p) PROVE FALSE
  <2>1. actor[p].item \in Items
    BY <1>6 DEF AutoClaim, RInv, ActorInv
  <2> QED BY <1>3, <1>6, <2>1 DEF AutoClaim
<1>7. ASSUME NEW p \in Actors, ApproveAdd(p) PROVE FALSE
  BY <1>7 DEF ApproveAdd
<1>8. ASSUME NEW p \in Actors, ApproveRelease(p) PROVE FALSE
  BY <1>8, <1>a DEF ApproveRelease, NoRequest
<1>9. ASSUME NEW p \in Actors, Renew(p) PROVE FALSE
  BY <1>9, <1>a DEF Renew
<1>10. CASE RequestCrash \/ Midnight \/ UNCHANGED requestVars
  BY <1>10, <1>a DEF RequestCrash, Midnight, requestVars
<1> QED BY <1>1, <1>2, <1>4, <1>5, <1>6, <1>7, <1>8, <1>9, <1>10 DEF RequestNext

\* No row becomes approved but by the approval that holds it: one whose claim was
\* taken over completes nothing.
THEOREM ApprovedOnlyByHolder == RequestSpec => ApprovedByItsHolder
<1>1. RInv /\ [RequestNext]_requestVars =>
        [\A i \in Items :
           (request[i].status # "approved" /\ request'[i].status = "approved")
             => \E p \in Actors : /\ actor[p].pc = "complete" /\ actor[p].item = i
                                  /\ Holds(p)]_requestVars
  BY ApprovalStep
<1> QED BY <1>1, RequestInvariant, PTL DEF RequestSpec, ApprovedByItsHolder

-----------------------------------------------------------------------------
(* Sums. *)

\* Among finite sets, one with the fewest elements.
LEMMA SmallestOf ==
  ASSUME NEW W, W # {}, \A w \in W : IsFiniteSet(w)
  PROVE  \E m \in W : \A w \in W : Cardinality(m) <= Cardinality(w)
<1> DEFINE C == {Cardinality(w) : w \in W}
<1>1. C \subseteq Nat /\ C # {}
  BY FS_CardinalityType
<1>2. PICK n \in C : \A k \in C : ~ (<<k, n>> \in OpToRel(<, Nat))
  BY <1>1, NatLessThanWellFounded, WFMin
<1>3. \A k \in C : ~ (k < n)
  BY <1>1, <1>2 DEF OpToRel
<1>4. PICK m \in W : n = Cardinality(m)
  BY <1>2
<1>5. \A w \in W : Cardinality(m) <= Cardinality(w)
  BY <1>1, <1>3, <1>4
<1>. QED BY <1>4, <1>5

\* What holds of the empty set and is kept when an element is added holds of a finite set;
\* the induction is over the sets it holds of, an argument the provers can instantiate.
LEMMA FiniteInduction ==
  ASSUME NEW S, IsFiniteSet(S), NEW G, {} \in G,
         \A T \in SUBSET S, x \in S : T \in G /\ x \notin T => T \cup {x} \in G
  PROVE  S \in G
<1> DEFINE W == {T \in SUBSET S : T \notin G}
<1> SUFFICES ASSUME S \notin G PROVE FALSE
  OBVIOUS
<1>1. W # {} /\ \A w \in W : IsFiniteSet(w)
  BY FS_Subset
<1>2. PICK m \in W : \A w \in W : Cardinality(m) <= Cardinality(w)
  BY <1>1, SmallestOf
<1>3. PICK x \in m : TRUE
  BY <1>2
<1>4. IsFiniteSet(m) /\ Cardinality(m) \in Nat
  BY <1>1, FS_CardinalityType
<1>5. Cardinality(m \ {x}) = Cardinality(m) - 1
  BY <1>3, <1>4, FS_RemoveElement
<1>6. m \ {x} \in G
  BY <1>2, <1>4, <1>5
<1>7. (m \ {x}) \cup {x} \in G
  BY <1>3, <1>6
<1>. QED BY <1>2, <1>3, <1>7

\* The element the library's sum takes first.
Pick(s) == CHOOSE x \in s : TRUE
\* The recursive equation g satisfies.
IsSum(g, f, S) == g = [s \in SUBSET S |-> IF s = {} THEN 0 ELSE f[Pick(s)] + g[s \ {Pick(s)}]]

\* The community modules' sum is a recursive function over the subsets, read where it is whole.
LEMMA SumIsChosen ==
  ASSUME NEW f, NEW S
  PROVE  SumFunctionOnSet(f, S) = (CHOOSE g : IsSum(g, f, S))[S]
BY DEF SumFunctionOnSet, FoldFunctionOnSet, MapThenFoldSet, IsSum, Pick

\* The element the sum takes first is one of the set.
LEMMA PickIn == ASSUME NEW s, s # {} PROVE Pick(s) \in s
BY DEF Pick

\* Two such functions agree wherever both are defined.
LEMMA IterAgrees ==
  ASSUME NEW f, NEW S, NEW T, IsFiniteSet(S), NEW g, NEW h, IsSum(g, f, S), IsSum(h, f, T)
  PROVE  \A u \in SUBSET S : u \subseteq T => g[u] = h[u]
<1> DEFINE W == {u \in SUBSET S : u \subseteq T /\ g[u] # h[u]}
<1> SUFFICES ASSUME W # {} PROVE FALSE
  OBVIOUS
<1>1. PICK m \in W : \A w \in W : Cardinality(m) <= Cardinality(w)
  BY SmallestOf, FS_Subset
<1>2. IsFiniteSet(m) /\ Cardinality(m) \in Nat
  BY FS_Subset, FS_CardinalityType
<1>3. g[m] = (IF m = {} THEN 0 ELSE f[Pick(m)] + g[m \ {Pick(m)}])
  BY DEF IsSum
<1>4. h[m] = (IF m = {} THEN 0 ELSE f[Pick(m)] + h[m \ {Pick(m)}])
  BY DEF IsSum
<1>5. m # {}
  BY <1>3, <1>4
<1>6. Cardinality(m \ {Pick(m)}) = Cardinality(m) - 1
  BY <1>2, <1>5, PickIn, FS_RemoveElement
<1>7. m \ {Pick(m)} \notin W
  BY <1>1, <1>2, <1>6
<1>8. g[m \ {Pick(m)}] = h[m \ {Pick(m)}]
  BY <1>7
<1>. QED BY <1>3, <1>4, <1>8

\* There is such a function for every finite set.
LEMMA IterExists ==
  ASSUME NEW f, NEW S, IsFiniteSet(S)
  PROVE  \E g : IsSum(g, f, S)
<1> DEFINE W == {u \in SUBSET S : \A g : ~ IsSum(g, f, u)}
<1> SUFFICES ASSUME W # {} PROVE FALSE
  OBVIOUS
<1>1. PICK m \in W : \A w \in W : Cardinality(m) <= Cardinality(w)
  BY SmallestOf, FS_Subset
<1>2. IsFiniteSet(m) /\ Cardinality(m) \in Nat
  BY FS_Subset, FS_CardinalityType
<1> DEFINE iter(u) == CHOOSE g : IsSum(g, f, u)
           g == [s \in SUBSET m |-> IF s = {} THEN 0
                   ELSE f[Pick(s)] + iter(s \ {Pick(s)})[s \ {Pick(s)}]]
<1>3. ASSUME NEW u \in SUBSET m, u # m PROVE IsSum(iter(u), f, u)
  <2>1. Cardinality(u) < Cardinality(m)
    BY <1>2, <1>3, FS_Subset, FS_CardinalityType
  <2>2. u \notin W
    BY <2>1, <1>1, <1>2, FS_Subset, FS_CardinalityType
  <2>. QED BY <2>2
<1>4. ASSUME NEW s \in SUBSET m, s # {}
      PROVE  g[s] = f[Pick(s)] + g[s \ {Pick(s)}]
  <2> DEFINE r == s \ {Pick(s)}
             q == r \ {Pick(r)}
  <2>1. Pick(s) \in s /\ r \in SUBSET m /\ r # m
    BY <1>4, PickIn
  <2>2. g[s] = f[Pick(s)] + iter(r)[r]
    BY <1>4
  <2>3. IsSum(iter(r), f, r)
    BY <2>1, <1>3
  <2>4. CASE r = {}
    <3>1. g[r] = 0
      BY <2>4
    <3>2. iter(r)[r] = 0
      BY <2>3, <2>4 DEF IsSum
    <3>. QED BY <2>2, <3>1, <3>2
  <2>5. CASE r # {}
    <3>1. g[r] = f[Pick(r)] + iter(q)[q]
      BY <2>1, <2>5
    <3>2. iter(r)[r] = f[Pick(r)] + iter(r)[q]
      BY <2>3, <2>5 DEF IsSum
    <3>3. q \in SUBSET m /\ q # m /\ q \subseteq r /\ IsFiniteSet(q)
      BY <2>1, <2>5, PickIn, <1>2, FS_Subset
    <3>4. IsSum(iter(q), f, q)
      BY <3>3, <1>3
    <3>5. iter(q)[q] = iter(r)[q]
      BY <3>3, <3>4, <2>3, IterAgrees
    <3>. QED BY <2>2, <3>1, <3>2, <3>5
  <2>. QED BY <2>4, <2>5
<1>5. g = [s \in SUBSET m |-> IF s = {} THEN 0 ELSE f[Pick(s)] + g[s \ {Pick(s)}]]
  <2>3. g[{}] = 0
    OBVIOUS
  <2> HIDE DEF g
  <2>1. \A s \in SUBSET m : g[s] = IF s = {} THEN 0 ELSE f[Pick(s)] + g[s \ {Pick(s)}]
    BY <1>4, <2>3
  <2>2. g = [s \in SUBSET m |-> g[s]]
    BY DEF g
  <2>. QED BY <2>1, <2>2
<1>6. IsSum(g, f, m)
  BY <1>5 DEF IsSum
<1>. QED BY <1>6

\* Nothing sums to zero.
LEMMA SumOfNone == \A f : SumFunctionOnSet(f, {}) = 0
<1> SUFFICES ASSUME NEW f PROVE SumFunctionOnSet(f, {}) = 0
  OBVIOUS
<1>1. IsSum(CHOOSE g : IsSum(g, f, {}), f, {})
  BY IterExists, FS_EmptySet
<1>. QED BY <1>1, SumIsChosen DEF IsSum

\* The recursive equation of the sum.
LEMMA SumPicks ==
  ASSUME NEW f, NEW S, IsFiniteSet(S), S # {}
  PROVE  SumFunctionOnSet(f, S) = f[Pick(S)] + SumFunctionOnSet(f, S \ {Pick(S)})
<1> DEFINE R == S \ {Pick(S)}
           g == CHOOSE g : IsSum(g, f, S)
           h == CHOOSE h : IsSum(h, f, R)
<1>1. IsSum(g, f, S) /\ SumFunctionOnSet(f, S) = g[S]
  BY IterExists, SumIsChosen
<1>2. IsFiniteSet(R)
  BY FS_Subset
<1>3. IsSum(h, f, R) /\ SumFunctionOnSet(f, R) = h[R]
  BY <1>2, IterExists, SumIsChosen
<1> HIDE DEF g, h
<1>4. g[S] = f[Pick(S)] + g[R]
  BY <1>1 DEF IsSum
<1>5. g[R] = h[R]
  BY <1>1, <1>2, <1>3, IterAgrees
<1>. QED BY <1>1, <1>3, <1>4, <1>5

\* Integers sum to an integer.
LEMMA SumType ==
  ASSUME NEW U, NEW f, IsFiniteSet(U), \A x \in U : f[x] \in Int
  PROVE  SumFunctionOnSet(f, U) \in Int
<1> DEFINE W == {u \in SUBSET U : SumFunctionOnSet(f, u) \notin Int}
<1> SUFFICES ASSUME W # {} PROVE FALSE
  OBVIOUS
<1>1. PICK m \in W : \A w \in W : Cardinality(m) <= Cardinality(w)
  BY SmallestOf, FS_Subset
<1>2. IsFiniteSet(m) /\ Cardinality(m) \in Nat
  BY FS_Subset, FS_CardinalityType
<1>3. m # {}
  BY SumOfNone
<1>4. Pick(m) \in m /\ Cardinality(m \ {Pick(m)}) = Cardinality(m) - 1
  BY <1>2, <1>3, PickIn, FS_RemoveElement
<1>5. m \ {Pick(m)} \notin W
  BY <1>1, <1>2, <1>4
<1>6. SumFunctionOnSet(f, m \ {Pick(m)}) \in Int
  BY <1>5
<1>. QED BY <1>2, <1>3, <1>4, <1>6, SumPicks

\* Any element may be taken out first.
LEMMA SumTakes ==
  ASSUME NEW S, NEW f, IsFiniteSet(S), \A x \in S : f[x] \in Int, NEW a \in S
  PROVE  SumFunctionOnSet(f, S) = f[a] + SumFunctionOnSet(f, S \ {a})
<1> DEFINE W == {u \in SUBSET S : \E x \in u : 
                   SumFunctionOnSet(f, u) # f[x] + SumFunctionOnSet(f, u \ {x})}
<1> SUFFICES ASSUME W # {} PROVE FALSE
  OBVIOUS
<1>1. PICK m \in W : \A w \in W : Cardinality(m) <= Cardinality(w)
  BY SmallestOf, FS_Subset
<1>2. IsFiniteSet(m) /\ Cardinality(m) \in Nat
  BY FS_Subset, FS_CardinalityType
<1>3. PICK x \in m : SumFunctionOnSet(f, m) # f[x] + SumFunctionOnSet(f, m \ {x})
  OBVIOUS
<1> DEFINE y == Pick(m)
           r == m \ {x, y}
<1>4. y \in m
  BY <1>3, PickIn
<1>5. SumFunctionOnSet(f, m) = f[y] + SumFunctionOnSet(f, m \ {y})
  BY <1>2, <1>3, SumPicks
<1>6. x # y
  BY <1>3, <1>5
<1> HIDE DEF y
<1>7. m \ {x} \notin W /\ m \ {y} \notin W
  <2>1. Cardinality(m \ {x}) = Cardinality(m) - 1
    BY <1>2, <1>3, FS_RemoveElement
  <2>2. Cardinality(m \ {y}) = Cardinality(m) - 1
    BY <1>2, <1>4, FS_RemoveElement
  <2>. QED BY <2>1, <2>2, <1>1, <1>2
<1>8. SumFunctionOnSet(f, m \ {x}) = f[y] + SumFunctionOnSet(f, r)
  <2>1. y \in m \ {x} /\ (m \ {x}) \ {y} = r /\ m \ {x} \in SUBSET S
    BY <1>4, <1>6
  <2>. QED BY <1>7, <2>1
<1>9. SumFunctionOnSet(f, m \ {y}) = f[x] + SumFunctionOnSet(f, r)
  <2>1. x \in m \ {y} /\ (m \ {y}) \ {x} = r /\ m \ {y} \in SUBSET S
    BY <1>3, <1>6
  <2>. QED BY <1>7, <2>1
<1>10. SumFunctionOnSet(f, r) \in Int
  <2>1. r \in SUBSET S
    OBVIOUS
  <2>. QED BY <2>1, FS_Subset, SumType
<1>. QED BY <1>3, <1>4, <1>5, <1>8, <1>9, <1>10

\* Larger values sum to no less.
LEMMA SumMonotone ==
  ASSUME NEW S, IsFiniteSet(S), NEW f, NEW g,
         \A x \in S : f[x] \in Int /\ g[x] \in Int /\ f[x] <= g[x]
  PROVE  SumFunctionOnSet(f, S) <= SumFunctionOnSet(g, S)
<1> DEFINE W == {u \in SUBSET S : ~ (SumFunctionOnSet(f, u) <= SumFunctionOnSet(g, u))}
<1> SUFFICES ASSUME W # {} PROVE FALSE
  OBVIOUS
<1>1. PICK m \in W : \A w \in W : Cardinality(m) <= Cardinality(w)
  BY SmallestOf, FS_Subset
<1>2. IsFiniteSet(m) /\ Cardinality(m) \in Nat
  BY FS_Subset, FS_CardinalityType
<1>3. m # {}
  BY SumOfNone
<1>4. PICK a \in m : TRUE
  BY <1>3
<1>5. Cardinality(m \ {a}) = Cardinality(m) - 1 /\ IsFiniteSet(m \ {a})
  BY <1>2, <1>4, FS_RemoveElement
<1>6. m \ {a} \notin W
  BY <1>1, <1>2, <1>5
<1>7. SumFunctionOnSet(f, m \ {a}) <= SumFunctionOnSet(g, m \ {a})
  BY <1>6
<1>8. SumFunctionOnSet(f, m) = f[a] + SumFunctionOnSet(f, m \ {a})
  BY <1>2, SumTakes
<1>9. SumFunctionOnSet(g, m) = g[a] + SumFunctionOnSet(g, m \ {a})
  BY <1>2, SumTakes
<1>10. SumFunctionOnSet(f, m \ {a}) \in Int /\ SumFunctionOnSet(g, m \ {a}) \in Int
  BY <1>5, SumType
<1>. QED BY <1>7, <1>8, <1>9, <1>10

\* Functions that agree on a set have the same sum over it.
LEMMA SumCongruent ==
  ASSUME NEW S, IsFiniteSet(S), NEW f, NEW g,
         \A x \in S : f[x] \in Int /\ g[x] = f[x]
  PROVE  SumFunctionOnSet(g, S) = SumFunctionOnSet(f, S)
<1>1. SumFunctionOnSet(f, S) <= SumFunctionOnSet(g, S)
  BY SumMonotone
<1>2. SumFunctionOnSet(g, S) <= SumFunctionOnSet(f, S)
  BY SumMonotone
<1>. QED BY <1>1, <1>2, SumType

\* A function changed at one element changes its sum by as much.
LEMMA SumMoves ==
  ASSUME NEW S, IsFiniteSet(S), NEW f, NEW g, NEW a \in S,
         \A x \in S : f[x] \in Int /\ g[x] \in Int,
         \A x \in S \ {a} : g[x] = f[x]
  PROVE  SumFunctionOnSet(g, S) = SumFunctionOnSet(f, S) + g[a] - f[a]
<1>1. SumFunctionOnSet(f, S) = f[a] + SumFunctionOnSet(f, S \ {a})
  BY SumTakes
<1>2. SumFunctionOnSet(g, S) = g[a] + SumFunctionOnSet(g, S \ {a})
  BY SumTakes
<1>3. SumFunctionOnSet(g, S \ {a}) = SumFunctionOnSet(f, S \ {a})
  BY FS_Subset, SumCongruent
<1>4. SumFunctionOnSet(f, S \ {a}) \in Int
  BY FS_Subset, SumType
<1>. QED BY <1>1, <1>2, <1>3, <1>4

\* Of naturals, a part sums to no more than the whole.
LEMMA SumOfPart ==
  ASSUME NEW S, IsFiniteSet(S), NEW T \in SUBSET S, NEW f, \A x \in S : f[x] \in Nat
  PROVE  SumFunctionOnSet(f, T) <= SumFunctionOnSet(f, S)
<1> DEFINE W == {u \in SUBSET S : T \subseteq u /\
                   ~ (SumFunctionOnSet(f, T) <= SumFunctionOnSet(f, u))}
<1> SUFFICES ASSUME W # {} PROVE FALSE
  OBVIOUS
<1>1. PICK m \in W : \A w \in W : Cardinality(m) <= Cardinality(w)
  BY SmallestOf, FS_Subset
<1>2. IsFiniteSet(m) /\ Cardinality(m) \in Nat
  BY FS_Subset, FS_CardinalityType
<1>3. SumFunctionOnSet(f, T) \in Int
  BY FS_Subset, SumType
<1>4. PICK a \in m : a \notin T
  BY <1>3
<1>5. Cardinality(m \ {a}) = Cardinality(m) - 1 /\ IsFiniteSet(m \ {a})
  BY <1>2, <1>4, FS_RemoveElement
<1>6. m \ {a} \notin W
  BY <1>1, <1>2, <1>5
<1>7. SumFunctionOnSet(f, T) <= SumFunctionOnSet(f, m \ {a})
  BY <1>4, <1>6
<1>8. SumFunctionOnSet(f, m) = f[a] + SumFunctionOnSet(f, m \ {a})
  BY <1>2, SumTakes
<1>9. SumFunctionOnSet(f, m \ {a}) \in Int
  BY <1>5, SumType
<1>. QED BY <1>3, <1>7, <1>8, <1>9

\* Zeroes sum to zero.
LEMMA SumOfZeroes ==
  ASSUME NEW S, IsFiniteSet(S), NEW f, \A x \in S : f[x] = 0
  PROVE  SumFunctionOnSet(f, S) = 0
<1> DEFINE G == {u \in SUBSET S : SumFunctionOnSet(f, u) = 0}
<1>1. {} \in G
  BY SumOfNone
<1>2. ASSUME NEW T \in SUBSET S, NEW x \in S, T \in G, x \notin T PROVE T \cup {x} \in G
  <2>1. (T \cup {x}) \ {x} = T /\ IsFiniteSet(T \cup {x})
    BY <1>2, FS_Subset
  <2>2. SumFunctionOnSet(f, T \cup {x}) = f[x] + SumFunctionOnSet(f, T)
    BY <2>1, SumTakes
  <2>. QED BY <1>2, <2>2
<1>. QED BY <1>1, <1>2, FiniteInduction

\* Naturals sum to a natural no less than any of them.
LEMMA SumOfNaturals ==
  ASSUME NEW S, IsFiniteSet(S), NEW f, \A x \in S : f[x] \in Nat
  PROVE  /\ SumFunctionOnSet(f, S) \in Nat
         /\ \A a \in S : f[a] <= SumFunctionOnSet(f, S)
<1>1. SumFunctionOnSet(f, S) \in Int /\ SumFunctionOnSet(f, S) >= 0
  BY SumType, SumOfPart, SumOfNone, {} \in SUBSET S
<1>2. ASSUME NEW a \in S PROVE f[a] <= SumFunctionOnSet(f, S)
  <2>1. SumFunctionOnSet(f, S) = f[a] + SumFunctionOnSet(f, S \ {a})
    BY SumTakes
  <2>2. SumFunctionOnSet(f, S \ {a}) \in Int /\ SumFunctionOnSet(f, S \ {a}) >= 0
    BY SumType, SumOfPart, SumOfNone, FS_Subset, {} \in SUBSET (S \ {a})
  <2>. QED BY <2>1, <2>2
<1>. QED BY <1>1, <1>2

-----------------------------------------------------------------------------
(* The query cap of an indexer. *)

\* The hours are finitely many naturals.
LEMMA HoursFinite == IsFiniteSet(Hours) /\ Hours \subseteq Nat
BY FS_Interval, LimitAssumption DEF Hours

\* The ladder has a longest rung, which bounds every hold.
LEMMA LongestRung ==
  /\ Longest \in Nat \ {0}
  /\ \A i \in 1 .. Len(Ladder) : Ladder[i] \in Nat \ {0} /\ Ladder[i] <= Longest
<1> DEFINE D == 1 .. Len(Ladder)
           G == {T \in SUBSET D : T = {} \/ \E m \in T : \A i \in T : Ladder[i] <= Ladder[m]}
<1>1. Len(Ladder) \in Nat \ {0} /\ D = DOMAIN Ladder /\ \A i \in D : Ladder[i] \in Nat \ {0}
  BY LimitAssumption
<1>2. IsFiniteSet(D)
  BY <1>1, FS_Interval
<1>3. ASSUME NEW T \in SUBSET D, NEW x \in D, T \in G, x \notin T PROVE T \cup {x} \in G
  <2>1. CASE T = {}
    BY <1>1, <2>1
  <2>2. CASE T # {}
    <3>1. PICK m \in T : \A i \in T : Ladder[i] <= Ladder[m]
      BY <1>3, <2>2
    <3>2. CASE Ladder[x] <= Ladder[m]
      BY <3>1, <3>2
    <3>3. CASE ~ (Ladder[x] <= Ladder[m])
      <4>1. \A i \in T \cup {x} : Ladder[i] <= Ladder[x]
        BY <1>1, <3>1, <3>3
      <4>. QED BY <4>1
    <3>. QED BY <3>2, <3>3
  <2>. QED BY <2>1, <2>2
<1>4. D \in G
  <2>1. {} \in G
    OBVIOUS
  <2> HIDE DEF G, D
  <2>. QED BY <2>1, <1>2, <1>3, FiniteInduction
<1>5. PICK m \in D : \A i \in D : Ladder[i] <= Ladder[m]
  BY <1>1, <1>4
<1>6. Longest \in {Ladder[i] : i \in DOMAIN Ladder} /\ \A i \in DOMAIN Ladder : Ladder[i] <= Longest
  BY <1>1, <1>5 DEF Longest
<1>. QED BY <1>1, <1>6

-----------------------------------------------------------------------------
\* What a leg is doing.
Leg == [pc : {"idle", "ask", "flush", "write"}, config : Nat, pending : [Hours -> Nat]]

\* The deltas of an hour that legs are writing, and the requests some count still knows.
PendingOf(h) == [l \in Legs |-> leg[l].pending[h]]
Known == [h \in Hours |-> asked[h] - forgotten[h]]

\* A leg has deltas only while it writes them.
PendingIsBeingWritten == \A l \in Legs : leg[l].pc # "write" => leg[l].pending = NoCounts

\* Loaded counts are what is known, written as far as they are marked; before the load no
\* leg runs and the table is what is known.
CountsAreKnown ==
  IF loaded THEN counts = Known /\ \A h \in Hours : flushed[h] <= counts[h]
  ELSE /\ stored = Known /\ counts = NoCounts /\ flushed = NoCounts
       /\ \A l \in Legs : leg[l].pc = "idle"

\* No request was sent in an hour to come.
NothingAhead == \A h \in Hours : h > hour => Known[h] = 0

LimitInv == /\ LimitTypeOK /\ PendingIsBeingWritten /\ CountsAreKnown /\ NothingAhead
            /\ FlushedIsStored /\ CapHolds

\* It holds initially: nothing was asked.
LEMMA LimitInitInv == LimitInit => LimitInv
<1> SUFFICES ASSUME LimitInit PROVE LimitInv
  OBVIOUS
<1>1. LimitTypeOK
  <2>1. NoCounts \in [Hours -> Nat] /\ 0 \in Hours
    BY LimitAssumption DEF NoCounts, Hours
  <2>2. leg \in [Legs -> [pc : {"idle", "ask", "flush", "write"}, config : Nat,
                         pending : [Hours -> Nat]]]
    BY <2>1 DEF LimitInit, NoLeg
  <2>3. 0 \in 0 .. Longest /\ 0 \in 0 .. Len(Ladder) /\ 0 \in 0 .. MaxMishaps
    BY LimitAssumption, LongestRung
  <2>. QED BY <2>1, <2>2, <2>3 DEF LimitInit, LimitTypeOK
<1>2. PendingIsBeingWritten
  BY DEF LimitInit, PendingIsBeingWritten, NoLeg
<1>3. Known = NoCounts
  BY DEF LimitInit, Known, NoCounts
<1>4. CountsAreKnown
  BY <1>3 DEF LimitInit, CountsAreKnown, NoLeg
<1>5. NothingAhead
  BY <1>3 DEF NothingAhead, NoCounts
<1>6. FlushedIsStored
  BY DEF LimitInit, FlushedIsStored
<1>7. CapHolds
  <2>1. SumFunctionOnSet(NoCounts, {h \in Hours : InWindow(h)}) = 0
    BY SumOfZeroes, HoursFinite, FS_Subset DEF NoCounts
  <2>. QED BY <2>1, <1>3, LimitAssumption DEF CapHolds, Known
<1>. QED BY <1>1, <1>2, <1>4, <1>5, <1>6, <1>7 DEF LimitInv

\* What a leg consults is what is known, loaded by it or before it, and what of it is marked
\* as written is in the table or on its way: an unloaded count has no write in flight.
LEMMA ConsultedIsKnown ==
  ASSUME LimitInv, ~ReadsFail, NEW c, NEW f, Consult(c, f)
  PROVE  /\ c = Known /\ c \in [Hours -> Nat] /\ f \in [Hours -> Nat] /\ loaded' = TRUE
         /\ mishaps' = mishaps
         /\ \A h \in Hours : f[h] <= c[h] /\ f[h] = stored[h] + SumFunctionOnSet(PendingOf(h), Legs)
<1>1. CASE loaded
  BY <1>1 DEF LimitInv, Consult, CountsAreKnown, FlushedIsStored, PendingOf, LimitTypeOK
<1>2. CASE ~loaded
  <2>1. c = stored /\ f = stored /\ loaded' = TRUE /\ mishaps' = mishaps /\ stored = Known
    BY <1>2 DEF Consult, LimitInv, CountsAreKnown
  <2>2. ASSUME NEW h \in Hours PROVE SumFunctionOnSet(PendingOf(h), Legs) = 0
    <3>1. \A l \in Legs : PendingOf(h)[l] = 0
      BY <1>2 DEF LimitInv, CountsAreKnown, PendingIsBeingWritten, PendingOf, NoCounts
    <3>. QED BY <3>1, SumOfZeroes, LimitAssumption
  <2>3. stored \in [Hours -> Nat]
    BY DEF LimitInv, LimitTypeOK
  <2>. QED BY <2>1, <2>2, <2>3
<1>. QED BY <1>1, <1>2

\* LegStart may load the counts, and changes no leg's deltas.
LEMMA LegStartInv ==
  ASSUME LimitInv, ~ReadsFail, NEW l \in Legs, LegStart(l)
  PROVE  LimitInv'
<1> USE DEF LimitInv
<1>1. PICK c \in {counts, stored}, f \in {flushed, stored} :
       /\ Consult(c, f) /\ counts' = c /\ flushed' = f
       /\ IF Used(c) < DailyLimit THEN leg' = [leg EXCEPT ![l] = [@ EXCEPT !.pc = "ask",
                                                              !.config = config]]
          ELSE UNCHANGED leg
  BY DEF LegStart
<1>2. /\ c = Known /\ c \in [Hours -> Nat] /\ f \in [Hours -> Nat] /\ loaded' = TRUE
      /\ mishaps' = mishaps
      /\ \A h \in Hours : f[h] <= c[h] /\ f[h] = stored[h] + SumFunctionOnSet(PendingOf(h), Legs)
  BY <1>1, ConsultedIsKnown
<1>3. /\ \A k \in Legs : leg'[k].pending = leg[k].pending
      /\ \A k \in Legs : leg'[k].pc # "write" => leg[k].pc # "write"
      /\ leg' \in [Legs -> [pc : {"idle", "ask", "flush", "write"}, config : Nat,
                       pending : [Hours -> Nat]]]
  <2>1. CASE UNCHANGED leg
    BY <2>1 DEF LimitTypeOK
  <2>2. CASE leg' = [leg EXCEPT ![l] = [@ EXCEPT !.pc = "ask", !.config = config]]
    <3> DEFINE r == [leg[l] EXCEPT !.pc = "ask", !.config = config]
    <3>1. leg[l] \in Leg /\ leg[l].pc = "idle" /\ config \in Nat
      BY DEF LimitTypeOK, LegStart, Leg
    <3>2. r \in Leg /\ r.pc = "ask" /\ r.pending = leg[l].pending
      BY <3>1 DEF Leg
    <3> HIDE DEF r
    <3>3. leg' = [leg EXCEPT ![l] = r]
      BY <2>2 DEF r
    <3>. QED BY <3>1, <3>2, <3>3 DEF LimitTypeOK, Leg
  <2>. QED BY <1>1, <2>1, <2>2
<1>4. UNCHANGED <<hour, asked, forgotten, stored, config, holdOf>> /\ entry' = "none"
  BY DEF LegStart
<1>5. LimitTypeOK'
  <2>1. hold' \in 0 .. Longest /\ rung' \in 0 .. Len(Ladder)
    BY LimitAssumption, LongestRung DEF LegStart, LimitTypeOK
  <2>. QED BY <1>1, <1>2, <1>3, <1>4, <2>1 DEF LimitTypeOK
<1>6. PendingIsBeingWritten'
  BY <1>3 DEF PendingIsBeingWritten
<1>7. Known' = Known
  BY <1>4 DEF Known
<1>8. CountsAreKnown'
  BY <1>1, <1>2, <1>7 DEF CountsAreKnown
<1>9. NothingAhead'
  BY <1>4, <1>7 DEF NothingAhead
<1>10. FlushedIsStored'
  <2>1. \A h \in Hours : PendingOf(h)' = PendingOf(h)
    BY <1>3 DEF PendingOf
  <2>. QED BY <1>1, <1>2, <1>4, <2>1 DEF FlushedIsStored, PendingOf
<1>11. CapHolds'
  BY <1>4 DEF CapHolds, InWindow
<1>. QED BY <1>5, <1>6, <1>8, <1>9, <1>10, <1>11

\* One leg's record changes: what is on its way for an hour changes by its delta.
LEMMA PendingMoves ==
  ASSUME NEW p \in [Legs -> Leg], NEW l \in Legs, NEW r \in Leg, NEW h \in Hours
  PROVE  SumFunctionOnSet([k \in Legs |-> [p EXCEPT ![l] = r][k].pending[h]], Legs)
          = SumFunctionOnSet([k \in Legs |-> p[k].pending[h]], Legs)
              + r.pending[h] - p[l].pending[h]
<1> DEFINE q == [p EXCEPT ![l] = r]
           f == [k \in Legs |-> p[k].pending[h]]
           g == [k \in Legs |-> q[k].pending[h]]
<1>1. \A k \in Legs : f[k] \in Int /\ g[k] \in Int
  BY DEF Leg
<1>2. g[l] = r.pending[h] /\ \A k \in Legs \ {l} : g[k] = f[k]
  OBVIOUS
<1> HIDE DEF f, g
<1>3. SumFunctionOnSet(g, Legs) = SumFunctionOnSet(f, Legs) + g[l] - f[l]
  BY <1>1, <1>2, LimitAssumption, SumMoves
<1>. QED BY <1>2, <1>3 DEF f, g

\* A leg goes to a step that writes nothing.
LEMMA LegGoes ==
  ASSUME leg \in [Legs -> Leg], NEW l \in Legs, NEW s \in {"idle", "flush"},
         leg' = leg \/ leg' = [leg EXCEPT ![l].pc = s], leg[l].pc # "write"
  PROVE  /\ \A k \in Legs : leg'[k].pending = leg[k].pending
         /\ \A k \in Legs : leg'[k].pc # "write" => leg[k].pc # "write"
         /\ leg' \in [Legs -> Leg]
<1>1. CASE leg' = leg
  BY <1>1
<1>2. CASE leg' = [leg EXCEPT ![l].pc = s]
  <2> DEFINE r == [leg[l] EXCEPT !.pc = s]
  <2>1. r \in Leg /\ r.pending = leg[l].pending /\ leg' = [leg EXCEPT ![l] = r]
    BY <1>2 DEF Leg
  <2> HIDE DEF r
  <2>. QED BY <2>1
<1>. QED BY <1>1, <1>2

\* LegAsk counts a request in the hour it is sent, while the window has room for it.
LEMMA LegAskInv ==
  ASSUME LimitInv, ~ReadsFail, NEW l \in Legs, LegAsk(l)
  PROVE  LimitInv'
<1> USE DEF LimitInv
<1>1. PICK c \in {counts, stored}, f \in {flushed, stored} :
       /\ Consult(c, f) /\ flushed' = f
       /\ IF Used(c) < DailyLimit
          THEN /\ counts' = [c EXCEPT ![hour] = @ + 1]
               /\ asked' = [asked EXCEPT ![hour] = @ + 1] /\ UNCHANGED leg
          ELSE /\ counts' = c /\ leg' = [leg EXCEPT ![l].pc = "flush"]
               /\ UNCHANGED asked
  BY DEF LegAsk
<1>2. /\ c = Known /\ c \in [Hours -> Nat] /\ f \in [Hours -> Nat] /\ loaded' = TRUE
      /\ mishaps' = mishaps
      /\ \A h \in Hours : f[h] <= c[h] /\ f[h] = stored[h] + SumFunctionOnSet(PendingOf(h), Legs)
  BY <1>1, ConsultedIsKnown
<1>3. /\ \A k \in Legs : leg'[k].pending = leg[k].pending
      /\ \A k \in Legs : leg'[k].pc # "write" => leg[k].pc # "write"
      /\ leg' \in [Legs -> Leg]
  <2>1. leg' = leg \/ leg' = [leg EXCEPT ![l].pc = "flush"]
    BY <1>1
  <2>2. leg \in [Legs -> Leg] /\ leg[l].pc = "ask"
    BY DEF LimitTypeOK, LegAsk, LegEnd, Leg
  <2>. QED BY <2>1, <2>2, LegGoes
<1>4. UNCHANGED <<hour, forgotten, stored, config, hold, rung, entry, holdOf>>
  BY DEF LegAsk, coolVars
<1>5. CASE Used(c) < DailyLimit
  <2>1. /\ counts' = [c EXCEPT ![hour] = @ + 1] /\ asked' = [asked EXCEPT ![hour] = @ + 1]
        /\ hour \in Hours /\ asked \in [Hours -> Nat] /\ forgotten \in [Hours -> Nat]
    BY <1>1, <1>5 DEF LimitTypeOK
  <2>2. /\ Known' = [Known EXCEPT ![hour] = @ + 1]
        /\ counts' \in [Hours -> Nat] /\ asked' \in [Hours -> Nat]
        /\ \A h \in Hours : counts'[h] >= c[h]
    BY <2>1, <1>2, <1>4 DEF Known
  <2>3. NothingAhead'
    BY <2>1, <2>2, <1>4, HoursFinite DEF NothingAhead
  <2>4. CapHolds'
    <3> DEFINE S == {h \in Hours : InWindow(h)}
    <3>1. hour \in S /\ IsFiniteSet(S) /\ S \subseteq Hours
      BY <2>1, HoursFinite, FS_Subset, LimitAssumption DEF InWindow
    <3>2. S' = S
      BY <1>4 DEF InWindow
    <3>3. \A h \in S : Known[h] \in Int /\ Known'[h] \in Int
      BY <1>2, <2>1, <2>2, <3>1
    <3>4. \A h \in S \ {hour} : Known'[h] = Known[h]
      BY <1>2, <2>1, <2>2, <3>1
    <3>5. Known'[hour] = Known[hour] + 1
      BY <1>2, <2>1, <2>2
    <3> HIDE DEF S
    <3>6. SumFunctionOnSet(Known', S) = SumFunctionOnSet(Known, S) + Known'[hour] - Known[hour]
      BY <3>1, <3>3, <3>4, SumMoves
    <3>7. SumFunctionOnSet(Known, S) < DailyLimit
      BY <1>2, <1>5 DEF Used, S
    <3>8. SumFunctionOnSet(Known, S) \in Int
      BY <3>1, <3>3, SumType
    <3>9. SumFunctionOnSet(Known', S') <= DailyLimit
      BY <3>1, <3>2, <3>3, <3>5, <3>6, <3>7, <3>8, LimitAssumption
    <3>. QED BY <3>9 DEF CapHolds, Known, S
  <2>5. CountsAreKnown'
    <3>1. counts' = Known'
      BY <1>2, <2>1, <2>2
    <3>2. \A h \in Hours : f[h] <= counts'[h]
      BY <1>2, <2>1, <2>2
    <3>. QED BY <1>1, <1>2, <3>1, <3>2 DEF CountsAreKnown
  <2>. QED
    <3>1. LimitTypeOK'
      BY <1>1, <1>2, <1>3, <1>4, <2>2 DEF LimitTypeOK, Leg
    <3>2. PendingIsBeingWritten'
      BY <1>3 DEF PendingIsBeingWritten
    <3>3. FlushedIsStored'
      <4>1. \A h \in Hours : PendingOf(h)' = PendingOf(h)
        BY <1>3 DEF PendingOf
      <4>. QED BY <1>1, <1>2, <1>4, <4>1 DEF FlushedIsStored, PendingOf
    <3>. QED BY <3>1, <3>2, <3>3, <2>3, <2>4, <2>5
<1>6. CASE ~ (Used(c) < DailyLimit)
  <2>1. counts' = c /\ asked' = asked
    BY <1>1, <1>6
  <2>2. Known' = Known
    BY <1>4, <2>1 DEF Known
  <2>3. LimitTypeOK'
    BY <1>1, <1>2, <1>3, <1>4, <2>1 DEF LimitTypeOK, Leg
  <2>4. PendingIsBeingWritten'
    BY <1>3 DEF PendingIsBeingWritten
  <2>5. FlushedIsStored'
    <3>1. \A h \in Hours : PendingOf(h)' = PendingOf(h)
      BY <1>3 DEF PendingOf
    <3>. QED BY <1>1, <1>2, <1>4, <3>1 DEF FlushedIsStored, PendingOf
  <2>6. CountsAreKnown'
    BY <1>1, <1>2, <2>1, <2>2 DEF CountsAreKnown
  <2>7. NothingAhead'
    BY <1>4, <2>2 DEF NothingAhead
  <2>8. CapHolds'
    BY <1>4, <2>1 DEF CapHolds, InWindow
  <2>. QED BY <2>3, <2>4, <2>5, <2>6, <2>7, <2>8
<1>. QED BY <1>5, <1>6

\* A noted limit keeps the hold and the rung within the ladder.
LEMMA NoteType ==
  ASSUME LimitInv, NEW l \in Legs, Note(l)
  PROVE  hold' \in 0 .. Longest /\ rung' \in 0 .. Len(Ladder) /\ entry' \in {"none", "live", "edited"}
           /\ holdOf' \in Nat
<1>1. /\ hold \in 0 .. Longest /\ rung \in 0 .. Len(Ladder) /\ entry \in {"none", "live", "edited"}
      /\ holdOf \in Nat /\ leg[l].config \in Nat
  BY DEF LimitInv, LimitTypeOK
<1>2. Len(Ladder) \in Nat \ {0}
  BY LimitAssumption
<1> DEFINE step == IF rung + 1 > Len(Ladder) THEN Len(Ladder) ELSE rung + 1
           d(hint) == IF hint > 0 THEN hint ELSE IF Climbs(FALSE) THEN Ladder[step] ELSE hold
<1>3. PICK hint \in {0} \cup 1 .. Longest :
       /\ hold' = IF d(hint) > hold THEN d(hint) ELSE hold
       /\ rung' = IF Climbs(hint > 0) THEN step ELSE rung
       /\ IF hint > 0 \/ hold = 0 THEN entry' = "live" /\ holdOf' = leg[l].config
          ELSE UNCHANGED <<entry, holdOf>>
  BY DEF Note
<1>4. step \in 1 .. Len(Ladder)
  BY <1>1, <1>2
<1>5. Ladder[step] \in 0 .. Longest
  BY <1>4, LongestRung
<1> HIDE DEF step
<1>6. d(hint) \in 0 .. Longest
  <2>1. Longest \in Nat /\ hint \in 0 .. Longest
    BY <1>3, LongestRung
  <2>. QED BY <1>1, <1>5, <2>1
<1> HIDE DEF d
<1>7. hold' \in 0 .. Longest
  BY <1>1, <1>3, <1>6
<1>8. rung' \in 0 .. Len(Ladder)
  BY <1>1, <1>3, <1>4
<1>. QED BY <1>1, <1>3, <1>7, <1>8

\* LegEnd leaves the counts alone.
LEMMA LegEndInv ==
  ASSUME LimitInv, NEW l \in Legs, LegEnd(l)
  PROVE  LimitInv'
<1> USE DEF LimitInv
<1>1. UNCHANGED <<hour, quotaVars, config, mishaps>>
  BY DEF LegEnd
<1>2. /\ \A k \in Legs : leg'[k].pending = leg[k].pending
      /\ \A k \in Legs : leg'[k].pc # "write" => leg[k].pc # "write"
      /\ leg' \in [Legs -> Leg]
  <2>1. PICK s \in {"idle", "flush"} : leg' = [leg EXCEPT ![l].pc = s]
    BY DEF LegEnd
  <2>2. leg \in [Legs -> Leg] /\ leg[l].pc = "ask"
    BY DEF LimitTypeOK, LegAsk, LegEnd, Leg
  <2>. QED BY <2>1, <2>2, LegGoes
<1>3. /\ hold' \in 0 .. Longest /\ rung' \in 0 .. Len(Ladder) /\ entry' \in {"none", "live", "edited"}
      /\ holdOf' \in Nat
  <2>1. CASE Note(l)
    BY <2>1, NoteType
  <2>2. /\ hold \in 0 .. Longest /\ rung \in 0 .. Len(Ladder) /\ entry \in {"none", "live", "edited"}
        /\ holdOf \in Nat
    BY DEF LimitTypeOK
  <2>3. CASE UNCHANGED coolVars
    BY <2>2, <2>3 DEF coolVars
  <2>4. CASE /\ rung' = IF rung > 0 THEN rung - 1 ELSE 0
             /\ UNCHANGED <<hold, entry, holdOf>>
    <3>1. Len(Ladder) \in Nat
      BY LimitAssumption
    <3>2. rung' \in 0 .. Len(Ladder)
      BY <2>2, <2>4, <3>1
    <3>. QED BY <2>2, <2>4, <3>2
  <2>. QED BY <2>1, <2>3, <2>4 DEF LegEnd
<1>4. loaded
  BY DEF LegEnd, CountsAreKnown
<1>5. LimitTypeOK'
  BY <1>1, <1>2, <1>3 DEF LimitTypeOK, Leg, quotaVars
<1>6. PendingIsBeingWritten'
  BY <1>2 DEF PendingIsBeingWritten
<1>7. Known' = Known
  BY <1>1 DEF Known, quotaVars
<1>8. CountsAreKnown'
  BY <1>1, <1>4, <1>7 DEF CountsAreKnown, quotaVars
<1>9. NothingAhead'
  BY <1>1, <1>7 DEF NothingAhead
<1>10. FlushedIsStored'
  <2>1. \A h \in Hours : PendingOf(h)' = PendingOf(h)
    BY <1>2 DEF PendingOf
  <2>. QED BY <1>1, <2>1 DEF FlushedIsStored, PendingOf, quotaVars
<1>11. CapHolds'
  BY <1>1 DEF CapHolds, InWindow, quotaVars
<1>. QED BY <1>5, <1>6, <1>8, <1>9, <1>10, <1>11

\* FlushMark marks exactly what it takes along.
LEMMA FlushMarkInv ==
  ASSUME LimitInv, NEW l \in Legs, FlushMark(l)
  PROVE  LimitInv'
<1> USE DEF LimitInv
<1> DEFINE pending == [h \in Hours |-> IF counts[h] > flushed[h] THEN counts[h] - flushed[h]
                                     ELSE 0]
<1>1. /\ UNCHANGED <<hour, asked, forgotten, loaded, counts, stored, coolVars, config, mishaps>>
      /\ leg[l].pc = "flush" /\ leg \in [Legs -> Leg] /\ loaded
      /\ leg[l].pending = NoCounts /\ counts = Known
      /\ counts \in [Hours -> Nat] /\ flushed \in [Hours -> Nat] /\ stored \in [Hours -> Nat]
      /\ \A h \in Hours : flushed[h] <= counts[h]
  BY DEF FlushMark, LimitTypeOK, PendingIsBeingWritten, CountsAreKnown, Leg
<1>2. pending \in [Hours -> Nat]
  BY <1>1
<1>3. Known' = Known
  BY <1>1 DEF Known
<1>4. NothingAhead'
  BY <1>1, <1>3 DEF NothingAhead
<1>5. CapHolds'
  BY <1>1 DEF CapHolds, InWindow
<1>6. CASE pending = NoCounts
  <2>1. leg' = [leg EXCEPT ![l] = NoLeg] /\ flushed' = flushed
    BY <1>6 DEF FlushMark
  <2>2. NoLeg \in Leg /\ NoLeg.pending = NoCounts
    BY DEF NoLeg, Leg, NoCounts
  <2> HIDE DEF pending
  <2>3. \A k \in Legs : leg'[k].pending = leg[k].pending /\ leg'[k] \in Leg
    BY <1>1, <2>1, <2>2
  <2>4. LimitTypeOK'
    BY <1>1, <2>1, <2>2 DEF LimitTypeOK, Leg, coolVars
  <2>5. PendingIsBeingWritten'
    BY <1>1, <2>1, <2>2 DEF PendingIsBeingWritten
  <2>6. CountsAreKnown'
    BY <1>1, <1>3, <2>1 DEF CountsAreKnown
  <2>7. FlushedIsStored'
    <3>1. \A h \in Hours : PendingOf(h)' = PendingOf(h)
      BY <2>3 DEF PendingOf
    <3>. QED BY <1>1, <2>1, <3>1 DEF FlushedIsStored, PendingOf
  <2>. QED BY <1>4, <1>5, <2>4, <2>5, <2>6, <2>7
<1>7. CASE pending # NoCounts
  <2> DEFINE r == [leg[l] EXCEPT !.pc = "write", !.pending = pending]
  <2>1. /\ flushed' = [h \in Hours |-> flushed[h] + pending[h]]
        /\ leg' = [leg EXCEPT ![l].pc = "write", ![l].pending = pending]
    BY <1>7 DEF FlushMark, Marked
  <2>2. \A h \in Hours : flushed'[h] = counts[h]
    BY <1>1, <2>1
  <2> HIDE DEF pending
  <2>3. leg' = [leg EXCEPT ![l] = r]
    BY <1>1, <2>1
  <2>4. r \in Leg /\ r.pc = "write" /\ r.pending = pending
    BY <1>1, <1>2 DEF Leg
  <2> HIDE DEF r
  <2>5. LimitTypeOK'
    <3>1. leg' \in [Legs -> Leg]
      BY <1>1, <2>3, <2>4
    <3>2. flushed' \in [Hours -> Nat]
      BY <1>1, <1>2, <2>1
    <3>. QED BY <1>1, <3>1, <3>2 DEF LimitTypeOK, Leg, coolVars
  <2>6. PendingIsBeingWritten'
    BY <1>1, <2>3, <2>4 DEF PendingIsBeingWritten
  <2>7. CountsAreKnown'
    BY <1>1, <1>3, <2>2 DEF CountsAreKnown
  <2>8. FlushedIsStored'
    <3>1. ASSUME NEW h \in Hours
          PROVE  flushed'[h] = stored[h] + SumFunctionOnSet(PendingOf(h)', Legs)
      <4>1. SumFunctionOnSet(PendingOf(h)', Legs) = SumFunctionOnSet(PendingOf(h), Legs) + pending[h]
        <5>1. leg[l].pending[h] = 0
          BY <1>1 DEF NoCounts
        <5>2. SumFunctionOnSet(PendingOf(h), Legs) \in Int
          BY <1>1, LimitAssumption, SumType DEF PendingOf, Leg
        <5>3. SumFunctionOnSet(PendingOf(h)', Legs)
               = SumFunctionOnSet(PendingOf(h), Legs) + r.pending[h] - leg[l].pending[h]
          BY <1>1, <2>3, <2>4, PendingMoves DEF PendingOf
        <5>. QED BY <1>2, <2>4, <5>1, <5>2, <5>3
      <4>2. flushed[h] = stored[h] + SumFunctionOnSet(PendingOf(h), Legs)
        BY <1>1 DEF FlushedIsStored, PendingOf
      <4>3. SumFunctionOnSet(PendingOf(h), Legs) \in Int
        BY <1>1, LimitAssumption, SumType DEF PendingOf, Leg
      <4>. QED BY <1>1, <1>2, <2>1, <4>1, <4>2, <4>3
    <3>. QED BY <1>1, <3>1 DEF FlushedIsStored, PendingOf
  <2>. QED BY <1>4, <1>5, <2>5, <2>6, <2>7, <2>8
<1>. QED BY <1>6, <1>7

\* FlushWrite moves one hour's delta into the table, or back among the unwritten.
LEMMA FlushWriteInv ==
  ASSUME LimitInv, NEW l \in Legs, FlushWrite(l)
  PROVE  LimitInv'
<1> USE DEF LimitInv
<1> DEFINE n(h)    == leg[l].pending[h]
           rest(h) == [leg[l].pending EXCEPT ![h] = 0]
           r(h)    == IF rest(h) = NoCounts THEN NoLeg ELSE [leg[l] EXCEPT !.pending = rest(h)]
<1>1. /\ UNCHANGED <<hour, asked, forgotten, loaded, counts, coolVars, config>>
      /\ leg[l].pc = "write" /\ leg \in [Legs -> Leg] /\ loaded
      /\ leg[l] \in Leg /\ leg[l].pending \in [Hours -> Nat] /\ counts = Known
      /\ counts \in [Hours -> Nat] /\ flushed \in [Hours -> Nat] /\ stored \in [Hours -> Nat]
      /\ \A h \in Hours : flushed[h] <= counts[h]
  BY DEF FlushWrite, LimitTypeOK, CountsAreKnown, Leg
<1>2. PICK g \in Hours :
        /\ n(g) > 0 /\ leg' = [leg EXCEPT ![l] = r(g)]
        /\ \/ /\ stored' = [stored EXCEPT ![g] = @ + n(g)] /\ UNCHANGED <<flushed, mishaps>>
           \/ /\ Mishap /\ flushed' = [flushed EXCEPT ![g] = @ - n(g)] /\ UNCHANGED stored
  BY DEF FlushWrite, PutBack
<1>3. /\ r(g) \in Leg /\ r(g).pending = rest(g) /\ rest(g) \in [Hours -> Nat]
      /\ r(g).pc # "write" => r(g).pending = NoCounts
  BY <1>1 DEF NoLeg, Leg, NoCounts
<1>4. n(g) \in Nat /\ rest(g)[g] = 0 /\ \A h \in Hours \ {g} : rest(g)[h] = leg[l].pending[h]
  BY <1>1
<1> HIDE DEF r, rest
<1>5. /\ SumFunctionOnSet(PendingOf(g)', Legs) = SumFunctionOnSet(PendingOf(g), Legs) - n(g)
      /\ SumFunctionOnSet(PendingOf(g), Legs) >= n(g)
      /\ SumFunctionOnSet(PendingOf(g), Legs) \in Nat
  <2>1. \A k \in Legs : PendingOf(g)[k] \in Nat
    BY <1>1 DEF PendingOf, Leg
  <2>2. /\ SumFunctionOnSet(PendingOf(g), Legs) \in Nat
        /\ \A k \in Legs : PendingOf(g)[k] <= SumFunctionOnSet(PendingOf(g), Legs)
    BY <2>1, SumOfNaturals, LimitAssumption
  <2>3. PendingOf(g)[l] = n(g)
    BY DEF PendingOf
  <2>4. SumFunctionOnSet(PendingOf(g)', Legs)
         = SumFunctionOnSet(PendingOf(g), Legs) + r(g).pending[g] - leg[l].pending[g]
    <3>1. PICK q \in Leg : q = r(g)
      BY <1>3
    <3>2. leg' = [leg EXCEPT ![l] = q]
      BY <1>2, <3>1
    <3>3. SumFunctionOnSet([k \in Legs |-> [leg EXCEPT ![l] = q][k].pending[g]], Legs)
           = SumFunctionOnSet([k \in Legs |-> leg[k].pending[g]], Legs)
               + q.pending[g] - leg[l].pending[g]
      BY <1>1, PendingMoves
    <3>. QED BY <3>1, <3>2, <3>3 DEF PendingOf
  <2>. QED BY <1>3, <1>4, <2>2, <2>3, <2>4
<1>6. ASSUME NEW h \in Hours, h # g PROVE PendingOf(h)' = PendingOf(h)
  BY <1>1, <1>2, <1>3, <1>4, <1>6 DEF PendingOf
<1>7. \A h \in Hours : flushed[h] = stored[h] + SumFunctionOnSet(PendingOf(h), Legs)
  BY <1>1 DEF FlushedIsStored, PendingOf
<1> HIDE DEF n
<1>8. /\ flushed' \in [Hours -> Nat] /\ stored' \in [Hours -> Nat]
      /\ \A h \in Hours : flushed'[h] <= flushed[h]
      /\ flushed'[g] = stored'[g] + SumFunctionOnSet(PendingOf(g)', Legs)
      /\ \A h \in Hours \ {g} : flushed'[h] = flushed[h] /\ stored'[h] = stored[h]
      /\ mishaps' \in 0 .. MaxMishaps
  <2>1. CASE /\ stored' = [stored EXCEPT ![g] = @ + n(g)] /\ UNCHANGED <<flushed, mishaps>>
    <3>1. stored'[g] = stored[g] + n(g) /\ stored' \in [Hours -> Nat]
      BY <2>1, <1>1, <1>4
    <3>2. mishaps' \in 0 .. MaxMishaps
      BY <2>1 DEF LimitTypeOK
    <3>. QED BY <2>1, <1>1, <1>4, <1>5, <1>7, <3>1, <3>2
  <2>2. CASE /\ Mishap /\ flushed' = [flushed EXCEPT ![g] = @ - n(g)] /\ UNCHANGED stored
    <3>1. mishaps' \in 0 .. MaxMishaps
      BY <2>2, LimitAssumption DEF LimitTypeOK, Mishap
    <3>2. flushed[g] - n(g) \in Nat
      BY <1>1, <1>4, <1>5, <1>7
    <3>. QED BY <2>2, <1>1, <1>4, <1>5, <1>7, <3>1, <3>2
  <2>. QED BY <1>2, <2>1, <2>2
<1>9. LimitTypeOK'
  BY <1>1, <1>2, <1>3, <1>8 DEF LimitTypeOK, Leg, coolVars
<1>10. PendingIsBeingWritten'
  BY <1>1, <1>2, <1>3 DEF PendingIsBeingWritten
<1>11. Known' = Known
  BY <1>1 DEF Known
<1>12. CountsAreKnown'
  <2>1. \A h \in Hours : flushed'[h] <= counts[h]
    BY <1>1, <1>8
  <2>. QED BY <1>1, <1>11, <2>1 DEF CountsAreKnown
<1>13. NothingAhead'
  BY <1>1, <1>11 DEF NothingAhead
<1>14. FlushedIsStored'
  <2>1. ASSUME NEW h \in Hours
        PROVE  flushed'[h] = stored'[h] + SumFunctionOnSet(PendingOf(h)', Legs)
    BY <1>6, <1>7, <1>8
  <2>. QED BY <2>1 DEF FlushedIsStored, PendingOf
<1>15. CapHolds'
  BY <1>1 DEF CapHolds, InWindow
<1>. QED BY <1>9, <1>10, <1>12, <1>13, <1>14, <1>15

\* An edit leaves the counts alone.
LEMMA IndexerEditInv ==
  ASSUME LimitInv, IndexerEdit
  PROVE  LimitInv'
<1> USE DEF LimitInv
<1>1. UNCHANGED <<hour, asked, forgotten, loaded, counts, flushed, stored, leg>>
  BY DEF IndexerEdit, quotaVars
<1>2. LimitTypeOK'
  <2>1. mishaps' \in 0 .. MaxMishaps /\ config' \in Nat /\ entry' \in {"none", "live", "edited"}
          /\ UNCHANGED <<hold, rung, holdOf>>
    BY LimitAssumption DEF LimitTypeOK, IndexerEdit, Mishap
  <2>. QED BY <1>1, <2>1 DEF LimitTypeOK
<1>3. /\ PendingIsBeingWritten' /\ CountsAreKnown' /\ NothingAhead' /\ FlushedIsStored'
      /\ CapHolds'
  BY <1>1 DEF PendingIsBeingWritten, CountsAreKnown, NothingAhead, FlushedIsStored, CapHolds,
              Known, InWindow
<1>. QED BY <1>2, <1>3

\* The hour that enters the window has no requests yet, and the others were in it.
LEMMA HourPassesInv ==
  ASSUME LimitInv, HourPasses
  PROVE  LimitInv'
<1> USE DEF LimitInv
<1>1. /\ UNCHANGED <<asked, forgotten, loaded, counts, flushed, stored, leg>>
      /\ hour' = hour + 1 /\ hour < LastHour /\ hour \in Hours
  BY DEF HourPasses, quotaVars, LimitTypeOK
<1>2. hour' \in Hours /\ hour \in Nat
  BY <1>1, LimitAssumption DEF Hours
<1>3. LimitTypeOK'
  <2>1. hold' \in 0 .. Longest
    BY LongestRung DEF LimitTypeOK, HourPasses
  <2>. QED BY <1>1, <1>2, <2>1 DEF LimitTypeOK, HourPasses
<1>4. Known' = Known
  BY <1>1 DEF Known
<1>5. NothingAhead'
  BY <1>1, <1>2, <1>4, HoursFinite DEF NothingAhead
<1>6. PendingIsBeingWritten' /\ CountsAreKnown' /\ FlushedIsStored'
  BY <1>1, <1>4 DEF PendingIsBeingWritten, CountsAreKnown, FlushedIsStored
<1>7. CapHolds'
  <2> DEFINE S == {h \in Hours : InWindow(h)}
             T == {h \in Hours : InWindow(h)'}
  <2>1. hour' \in T /\ T \ {hour'} \subseteq S
    <3>1. Window \in Nat /\ Hours \subseteq Nat
      BY LimitAssumption, HoursFinite
    <3>2. hour' <= hour' /\ hour' + Window >= hour'
      BY <1>1, <1>2, <3>1
    <3>3. ASSUME NEW h \in Hours, h <= hour + 1, h + Window >= hour + 1, h # hour + 1
          PROVE  h <= hour /\ h + Window >= hour
      BY <1>2, <3>1, <3>3
    <3>4. T = {h \in Hours : h <= hour + 1 /\ h + Window >= hour + 1}
      BY <1>1 DEF InWindow
    <3>. QED BY <1>1, <1>2, <3>2, <3>3, <3>4 DEF InWindow
  <2>2. IsFiniteSet(S) /\ IsFiniteSet(T)
    BY HoursFinite, FS_Subset
  <2>3. \A h \in Hours : Known[h] \in Nat
    <3>1. CASE loaded
      BY <3>1 DEF CountsAreKnown, LimitTypeOK
    <3>2. CASE ~loaded
      BY <3>2 DEF CountsAreKnown, LimitTypeOK
    <3>. QED BY <3>1, <3>2
  <2>4. Known[hour'] = 0
    BY <1>1, <1>2 DEF NothingAhead
  <2>5. S \subseteq Hours /\ T \subseteq Hours
    OBVIOUS
  <2>6. SumFunctionOnSet(Known, S) <= DailyLimit
    BY DEF CapHolds, Known
  <2> HIDE DEF S, T
  <2>7. SumFunctionOnSet(Known, T) = Known[hour'] + SumFunctionOnSet(Known, T \ {hour'})
    BY <2>1, <2>2, <2>3, <2>5, SumTakes
  <2>8. SumFunctionOnSet(Known, T \ {hour'}) <= SumFunctionOnSet(Known, S)
    BY <2>1, <2>2, <2>3, <2>5, SumOfPart
  <2>9. SumFunctionOnSet(Known, S) \in Int /\ SumFunctionOnSet(Known, T \ {hour'}) \in Int
    <3>1. IsFiniteSet(T \ {hour'})
      BY <2>2, FS_RemoveElement
    <3>. QED BY <3>1, <2>2, <2>3, <2>5, SumType
  <2>10. SumFunctionOnSet(Known, T) <= DailyLimit
    BY <2>4, <2>6, <2>7, <2>8, <2>9, LimitAssumption
  <2>11. SumFunctionOnSet(Known', T) <= DailyLimit
    BY <2>10, <1>4
  <2>. QED BY <2>11 DEF CapHolds, Known, T
<1>. QED BY <1>3, <1>5, <1>6, <1>7

\* What survives a restart was stored, which is no more than what was known.
LEMMA LimitRestartInv ==
  ASSUME LimitInv, LimitRestart
  PROVE  LimitInv'
<1> USE DEF LimitInv
<1>1. /\ asked \in [Hours -> Nat] /\ forgotten \in [Hours -> Nat] /\ stored \in [Hours -> Nat]
      /\ counts \in [Hours -> Nat] /\ flushed \in [Hours -> Nat] /\ leg \in [Legs -> Leg]
  BY DEF LimitTypeOK, Leg
<1>2. /\ loaded' = FALSE /\ counts' = NoCounts /\ flushed' = NoCounts
      /\ forgotten' = [h \in Hours |-> asked[h] - stored[h]]
      /\ leg' = [l \in Legs |-> NoLeg] /\ UNCHANGED <<hour, asked, stored>>
  BY DEF LimitRestart
<1>3. ASSUME NEW h \in Hours PROVE stored[h] <= Known[h] /\ Known[h] \in Nat
  <2>1. CASE ~loaded
    BY <1>1, <2>1 DEF CountsAreKnown
  <2>2. CASE loaded
    <3>1. SumFunctionOnSet(PendingOf(h), Legs) \in Nat
      BY <1>1, SumOfNaturals, LimitAssumption DEF PendingOf, Leg
    <3>2. flushed[h] = stored[h] + SumFunctionOnSet(PendingOf(h), Legs)
      BY <2>2 DEF FlushedIsStored, PendingOf
    <3>. QED BY <1>1, <2>2, <3>1, <3>2 DEF CountsAreKnown
  <2>. QED BY <2>1, <2>2
<1>4. \A h \in Hours : asked[h] - stored[h] \in Nat
  BY <1>1, <1>3 DEF Known
<1>5. Known' = stored
  BY <1>1, <1>2 DEF Known
<1>6. NoCounts \in [Hours -> Nat] /\ NoLeg \in Leg
  BY DEF NoCounts, NoLeg, Leg
<1>7. LimitTypeOK'
  <2>1. 0 \in 0 .. Longest /\ 0 \in 0 .. Len(Ladder) /\ mishaps' \in 0 .. MaxMishaps
    BY LongestRung, LimitAssumption DEF LimitTypeOK, LimitRestart, Mishap
  <2>2. leg' \in [Legs -> Leg] /\ forgotten' \in [Hours -> Nat]
    BY <1>2, <1>4, <1>6
  <2>. QED BY <1>1, <1>2, <1>6, <2>1, <2>2 DEF LimitTypeOK, LimitRestart, Leg
<1>8. PendingIsBeingWritten'
  BY <1>2 DEF PendingIsBeingWritten, NoLeg
<1>9. CountsAreKnown'
  BY <1>2, <1>5 DEF CountsAreKnown, NoLeg
<1>10. NothingAhead'
  BY <1>1, <1>2, <1>3, <1>5 DEF NothingAhead
<1>11. FlushedIsStored'
  BY <1>2 DEF FlushedIsStored
<1>12. CapHolds'
  <2> DEFINE S == {h \in Hours : InWindow(h)}
  <2>1. IsFiniteSet(S) /\ S \subseteq Hours
    BY HoursFinite, FS_Subset
  <2>2. S' = S
    BY <1>2 DEF InWindow
  <2>3. SumFunctionOnSet(Known, S) <= DailyLimit
    BY DEF CapHolds, Known
  <2> HIDE DEF S
  <2>4. SumFunctionOnSet(stored, S) <= SumFunctionOnSet(Known, S)
    BY <1>1, <1>3, <2>1, SumMonotone
  <2>5. SumFunctionOnSet(stored, S) \in Int /\ SumFunctionOnSet(Known, S) \in Int
    BY <1>1, <1>3, <2>1, SumType
  <2>6. SumFunctionOnSet(Known', S') <= DailyLimit
    BY <1>5, <2>2, <2>3, <2>4, <2>5, LimitAssumption
  <2>. QED BY <2>6 DEF CapHolds, Known, S
<1>. QED BY <1>7, <1>8, <1>9, <1>10, <1>11, <1>12

\* A step that changes none of its variables keeps it.
LEMMA LimitStutterInv == LimitInv /\ UNCHANGED limitVars => LimitInv'
BY DEF LimitInv, limitVars, LimitTypeOK, PendingIsBeingWritten, CountsAreKnown, NothingAhead,
       FlushedIsStored, CapHolds, Known, InWindow

\* Every step of the limits keeps it.
LEMMA LimitNextInv ==
  ASSUME LimitInv, ~ReadsFail, [LimitNext]_limitVars
  PROVE  LimitInv'
<1>1. ASSUME NEW l \in Legs, LegStart(l) \/ LegAsk(l) \/ LegEnd(l) PROVE LimitInv'
  BY <1>1, LegStartInv, LegAskInv, LegEndInv
<1>2. ASSUME NEW l \in Legs, FlushMark(l) \/ FlushWrite(l) PROVE LimitInv'
  BY <1>2, FlushMarkInv, FlushWriteInv
<1>3. CASE IndexerEdit \/ HourPasses \/ LimitRestart
  BY <1>3, IndexerEditInv, HourPassesInv, LimitRestartInv
<1>. QED BY <1>1, <1>2, <1>3, LimitStutterInv DEF LimitNext

\* Type correctness, counts that are what was asked, and the cap, for any number of legs, any
\* cap, window and ladder, as long as the stored counts can be read.
THEOREM LimitInvariant == ASSUME ~ReadsFail PROVE LimitSpec => []LimitInv
<1>1. LimitInv /\ [LimitNext]_limitVars => LimitInv'
  BY LimitNextInv
<1>. QED BY <1>1, LimitInitInv, PTL DEF LimitSpec

\* indexerQuota.flush: what is marked as written is in the table or on its way, over
\* overlapping flushes and failed writes.
THEOREM EveryRequestIsWrittenOnce == ASSUME ~ReadsFail PROVE LimitSpec => []FlushedIsStored
<1>1. LimitInv => FlushedIsStored
  BY DEF LimitInv
<1>. QED BY <1>1, LimitInvariant, PTL

\* indexerQuota.Take: no interleaving of legs, flushes, hours and restarts sends more than
\* the cap over a window, the requests a restart forgot excepted.
THEOREM CapAlwaysHolds == ASSUME ~ReadsFail PROVE LimitSpec => []CapHolds
<1>1. LimitInv => CapHolds
  BY DEF LimitInv
<1>. QED BY <1>1, LimitInvariant, PTL

==============================================================================
