--------------------------- MODULE SchedPolicyProofs ---------------------------
(***************************************************************************)
(* What the policies promise on a sound script: who owns what, that no     *)
(* assertion fails, who never waits, who is never forgotten, what strands  *)
(* a process, and what a donated priority is worth; then aging, and the    *)
(* refinement of ProcessLife.                                              *)
(***************************************************************************)
EXTENDS SchedProofs, SchedRefinement, FiniteSetTheorems

USE ProcsAssumption

(***************************************************************************)
(* What a sound script adds (unique pids, requests that end within the     *)
(* lifespan, nothing asked for that is still held): proofs for every policy *)
(* and every such script                                                   *)
(***************************************************************************)
Asked(p) == Range(Requests(p))

(* Request a is written before request b.                                  *)
Earlier(p, a, b) == \E i, j \in DOMAIN Requests(p) :
                      i < j /\ Requests(p)[i] = a /\ Requests(p)[j] = b

(* The request that became entry i of the holding list.  Its duration has  *)
(* been counted down once for each tick since it was granted, also in this *)
(* tick unless the release loop has not come to the entry yet.             *)
Lag(p, i) == IF pc = "release" /\ p = current /\ i >= cursor THEN 1 ELSE 0
Origin(p, i) == [resource_id |-> holding[p][i].resource_id, at |-> holding[p][i].at,
                 duration |-> holding[p][i].duration + age[p] - Lag(p, i)
                                - holding[p][i].at]

(* What is left to acquire is still to come, in the order of the script.   *)
PendingInv == \A p \in Procs :
    /\ \A i \in DOMAIN to_acquire[p] : /\ to_acquire[p][i] \in Asked(p)
                                       /\ to_acquire[p][i].at >= age[p]
    /\ \A i, j \in DOMAIN to_acquire[p] :
         i < j => Earlier(p, to_acquire[p][i], to_acquire[p][j])

(* What is held was asked for, earlier than what is left, and is given     *)
(* back when its duration is over.                                         *)
HoldingInv == \A p \in Procs : \A i \in DOMAIN holding[p] :
    /\ holding[p][i].duration > 0 /\ holding[p][i].at <= age[p]
    /\ Origin(p, i) \in Asked(p)
    /\ \A j \in DOMAIN to_acquire[p] :
         /\ to_acquire[p][j] # Origin(p, i)
         /\ to_acquire[p][j].at = holding[p][i].at
              => Earlier(p, Origin(p, i), to_acquire[p][j])

HeldOnce == \A p \in Procs : \A i, j \in DOMAIN holding[p] :
    i # j => ~SingleHold /\ holding[p][i].resource_id # holding[p][j].resource_id

OwnersAgree == \A r \in Resources, p \in Procs : owner[r] = p <=> Holds(p, r)

(* Who has not been forked has taken part in nothing.                      *)
Unborn == \A p \in Range(forkqueue) : holding[p] = <<>> /\ wanted[p] = NULL

(* What it was refused was granted before the process could go on.         *)
NothingWanted == pc = "release" => wanted[current] = NULL

SoundInv == /\ PendingInv /\ HoldingInv /\ HeldOnce /\ OwnersAgree /\ Unborn
            /\ NothingWanted /\ pc # "aborted"
PrioInv == sched \in {"pcp", "pip"} =>
             \A p \in Procs : holding[p] = <<>> => prio[p] = PrioOrig(p)

SoundHolds == Sound => SoundInv /\ PrioInv

(***************************************************************************)
(* What a sound script says of two requests of a process                   *)
(***************************************************************************)
LEMMA AskedFacts ==
    ASSUME TypeOK, Sound, NEW p \in Procs, NEW a \in Asked(p)
    PROVE  /\ a \in Request /\ a.resource_id \in Resources /\ a.at \in Nat
           /\ a.duration \in Nat /\ a.duration > 0 /\ a.at + a.duration <= Lifespan(p)
           /\ a = [resource_id |-> a.resource_id, at |-> a.at, duration |-> a.duration]
  <1>1. script[p] \in Description
    BY DEF TypeOK
  <1>2. Requests(p) \in Seq(Request)
    BY <1>1 DEF Description, Requests
  <1>3. PICK i \in DOMAIN Requests(p) : a = Requests(p)[i]
    BY DEF Asked, Range
  <1>4. a \in Request
    BY <1>2, <1>3
  <1>5. a.duration > 0 /\ a.at + a.duration <= Lifespan(p)
    BY <1>3 DEF Sound, WellFormed, Ends
  <1>6. /\ a.resource_id \in Resources /\ a.at \in Nat /\ a.duration \in Int
        /\ a = [resource_id |-> a.resource_id, at |-> a.at, duration |-> a.duration]
    BY <1>4 DEF Request
  <1> QED BY <1>4, <1>5, <1>6

LEMMA OverlapFacts ==
    ASSUME TypeOK, Sound, NEW p \in Procs, NEW a \in Asked(p), NEW b \in Asked(p),
           a # b, Overlap(a, b)
    PROVE  a.resource_id # b.resource_id /\ ~SingleHold
  <1>1. PICK i \in DOMAIN Requests(p) : a = Requests(p)[i]
    BY DEF Asked, Range
  <1>2. PICK j \in DOMAIN Requests(p) : b = Requests(p)[j]
    BY DEF Asked, Range
  <1> QED BY <1>1, <1>2 DEF Sound, NoReacquire, SingleHold

(* No request is written twice: it would overlap with itself.              *)
LEMMA EarlierFacts ==
    ASSUME TypeOK, Sound, NEW p \in Procs, NEW a, NEW b, Earlier(p, a, b)
    PROVE  a # b /\ a \in Asked(p) /\ b \in Asked(p)
  <1>1. PICK i, j \in DOMAIN Requests(p) : i < j /\ Requests(p)[i] = a /\ Requests(p)[j] = b
    BY DEF Earlier
  <1>2. a \in Asked(p) /\ b \in Asked(p)
    BY <1>1 DEF Asked, Range
  <1>3. ASSUME a = b PROVE FALSE
    <2>1. a.at \in Nat /\ a.duration \in Nat /\ a.duration > 0
      BY <1>2, AskedFacts
    <2>2. Overlap(a, a)
      BY <2>1 DEF Overlap, Ends
    <2>3. script[p] \in Description
      BY DEF TypeOK
    <2>4. Requests(p) \in Seq(Request)
      BY <2>3 DEF Description, Requests
    <2>5. i # j
      BY <1>1, <2>4
    <2> QED BY <1>1, <1>3, <2>2, <2>5 DEF Sound, NoReacquire
  <1> QED BY <1>2, <1>3

LEMMA SameScript ==
    ASSUME script' = script
    PROVE  /\ Sound' <=> Sound
           /\ SingleHold' <=> SingleHold
           /\ UnderCeiling' <=> UnderCeiling
           /\ \A p : /\ Asked(p)' = Asked(p) /\ PrioOrig(p)' = PrioOrig(p)
                     /\ Lifespan(p)' = Lifespan(p)
           /\ \A p, a, b : Earlier(p, a, b)' <=> Earlier(p, a, b)
  BY DEF Sound, SingleHold, UnderCeiling, Asked, PrioOrig, Lifespan, Earlier, UniquePids,
         WellFormed, NoReacquire, Requests, Pid

(* Two requests, one held and one due now: they overlap.                   *)
LEMMA HeldAndDue ==
    ASSUME TypeOK, Sound, PendingInv, HoldingInv, NEW p \in Procs,
           NEW i \in DOMAIN holding[p], NEW j \in DOMAIN to_acquire[p],
           to_acquire[p][j].at = age[p], Lag(p, i) = 0
    PROVE  /\ holding[p][i].resource_id # to_acquire[p][j].resource_id
           /\ Overlap(Origin(p, i), to_acquire[p][j])
           /\ ~SingleHold
  <1> DEFINE a == Origin(p, i)
  <1> DEFINE b == to_acquire[p][j]
  <1>1. a \in Asked(p) /\ b \in Asked(p) /\ a # b
    BY DEF HoldingInv, PendingInv
  <1>2. /\ a.at = holding[p][i].at /\ a.resource_id = holding[p][i].resource_id
        /\ a.duration = holding[p][i].duration + age[p] - 0 - holding[p][i].at
    BY DEF Origin
  <1>3. /\ holding[p][i] \in Request /\ age[p] \in Nat
    <2>1. holding[p] \in Seq(Request)
      BY DEF TypeOK
    <2> QED BY <2>1 DEF TypeOK
  <1>4. holding[p][i].at \in Nat /\ holding[p][i].duration \in Int
    BY <1>3 DEF Request
  <1>5. holding[p][i].duration > 0 /\ holding[p][i].at <= age[p]
    BY DEF HoldingInv
  <1>6. b.at \in Nat /\ b.duration \in Nat /\ b.duration > 0
    BY <1>1, AskedFacts
  <1>7. Overlap(a, b)
    <2> HIDE DEF a, b
    <2>1. a.at < b.at + b.duration
      BY <1>2, <1>3, <1>4, <1>5, <1>6 DEF b
    <2>2. b.at < a.at + a.duration
      BY <1>2, <1>3, <1>4, <1>5, <1>6 DEF b
    <2> QED BY <2>1, <2>2 DEF Overlap, Ends
  <1> QED BY <1>1, <1>2, <1>7, OverlapFacts

(***************************************************************************)
(* Every step keeps SoundInv                                               *)
(***************************************************************************)
(* A step that neither grants, nor gives back, nor works.                  *)
LEMMA SoundStill ==
    ASSUME SoundInv, script' = script, age' = age, to_acquire' = to_acquire,
           holding' = holding, owner' = owner, pc' # "aborted",
           \A p \in Procs : \A i \in DOMAIN holding[p] : Lag(p, i)' = Lag(p, i),
           Range(forkqueue') \subseteq Range(forkqueue),
           \A p \in Range(forkqueue') : wanted'[p] = wanted[p],
           pc' = "release" => pc = "release" /\ UNCHANGED <<current, wanted>>
    PROVE  SoundInv'
  <1>1. PendingInv' 
    BY SameScript DEF SoundInv, PendingInv
  <1>2. \A p \in Procs : \A i \in DOMAIN holding[p] : Origin(p, i)' = Origin(p, i)
    BY DEF Origin
  <1>3. HoldingInv'
    BY <1>2, SameScript DEF SoundInv, HoldingInv
  <1>4. HeldOnce' /\ OwnersAgree'
    BY SameScript DEF SoundInv, HeldOnce, OwnersAgree, Holds
  <1>5. Unborn' /\ NothingWanted'
    BY DEF SoundInv, Unborn, NothingWanted
  <1> QED BY <1>1, <1>3, <1>4, <1>5 DEF SoundInv

LEMMA SoundInit == Init /\ Sound => SoundInv
  <1> SUFFICES ASSUME Init, Sound PROVE SoundInv
    OBVIOUS
  <1>1. TypeOK
    BY TypeInit DEF TypeInv
  <1>2. /\ pc = "fork"
        /\ age = [p \in Procs |-> 0] /\ to_acquire = [p \in Procs |-> Requests(p)]
        /\ holding = [p \in Procs |-> <<>>] /\ wanted = [p \in Procs |-> NULL]
        /\ owner = [r \in Resources |-> NULL]
        /\ Range(forkqueue) = Procs
    BY FileOrderAssumption DEF Init, Requests
  <1>3. PendingInv
    <2> SUFFICES ASSUME NEW p \in Procs, NEW i \in DOMAIN Requests(p)
                 PROVE  /\ Requests(p)[i] \in Asked(p)
                        /\ Requests(p)[i].at >= 0
                        /\ \A j \in DOMAIN Requests(p) :
                             i < j => Earlier(p, Requests(p)[i], Requests(p)[j])
      BY <1>2 DEF PendingInv
    <2>1. Requests(p)[i] \in Asked(p)
      BY DEF Asked, Range
    <2> QED BY <1>1, <2>1, AskedFacts DEF Earlier
  <1>4. \A p \in Procs : holding[p] = <<>> /\ DOMAIN holding[p] = {}
    BY <1>2
  <1>5. HoldingInv /\ HeldOnce
    BY <1>4 DEF HoldingInv, HeldOnce
  <1>6. OwnersAgree
    BY <1>2, <1>4 DEF OwnersAgree, Holds
  <1> QED BY <1>2, <1>3, <1>4, <1>5, <1>6 DEF SoundInv, Unborn, NothingWanted

LEMMA SoundGranted == ASSUME AllInv, Sound, SoundInv, Granted PROVE SoundInv'
  <1>1. /\ PendingInv /\ HoldingInv /\ HeldOnce /\ OwnersAgree /\ Unborn /\ TypeOK
        /\ UniquePids
    BY LifeFacts DEF SoundInv, AllInv, Sound
  <1>2. /\ pc = "acquire" /\ pc' = pc /\ current # NULL
        /\ current \in Procs /\ current' = current /\ cursor' = cursor
        /\ script' = script /\ age' = age /\ forkqueue' = forkqueue
        /\ ~Attached(current)
    BY GrantedEffect, LifeFacts DEF AllInv, configVars, loopVars, CurrentDetached
  <1>3. PICK i \in DOMAIN to_acquire[current] :
          LET rs == to_acquire[current][i]
          IN  /\ NextRequest(i)
              /\ \/ Pid(owner[rs.resource_id]) = Pid(current)
                                   /\ owner[rs.resource_id] # NULL
                 \/ /\ owner[rs.resource_id] = NULL
                    /\ owner' = [owner EXCEPT ![rs.resource_id] = current]
              /\ to_acquire' = [to_acquire EXCEPT ![current] = RemoveAt(@, i)]
              /\ holding' = [holding EXCEPT ![current] = Append(@, rs)]
              /\ wanted' = [wanted EXCEPT ![current] = NULL]
    BY GrantedEffect DEF AllInv
  <1> DEFINE acq == to_acquire[current]
  <1> DEFINE hold == holding[current]
  <1> DEFINE rs == acq[i]
  <1> DEFINE r == rs.resource_id
  <1>4. /\ acq \in Seq(Request) /\ i \in 1 .. Len(acq) /\ rs \in Request
        /\ rs.at = age[current] /\ \A j \in 1 .. i-1 : acq[j].at # age[current]
        /\ r \in Resources /\ hold \in Seq(Request)
    BY <1>2, <1>3, RequestDue DEF AllInv
  <1>5. /\ acq' = RemoveAt(acq, i)
        /\ \A p \in Procs \ {current} : to_acquire'[p] = to_acquire[p]
        /\ hold' = Append(hold, rs)
        /\ \A p \in Procs \ {current} : holding'[p] = holding[p]
    BY <1>1, <1>2, <1>3 DEF TypeOK
  <1>6. PICK was \in [DOMAIN RemoveAt(acq, i) -> DOMAIN acq \ {i}] :
          /\ \A j \in DOMAIN RemoveAt(acq, i) : RemoveAt(acq, i)[j] = acq[was[j]]
          /\ \A j, k \in DOMAIN RemoveAt(acq, i) : j < k <=> was[j] < was[k]
    <2>1. acq \in Seq(Request) /\ i \in 1 .. Len(acq)
      BY <1>4
    <2> HIDE DEF acq
    <2> QED BY <2>1, RemoveAtIndices
  <1>7. \A p \in Procs : \A k : Lag(p, k) = 0 /\ Lag(p, k)' = 0
    BY <1>2 DEF Lag
  <1>8. /\ DOMAIN hold' = 1 .. Len(hold) + 1 /\ Len(hold) \in Nat
        /\ DOMAIN hold = 1 .. Len(hold)
        /\ \A k \in 1 .. Len(hold) : hold'[k] = hold[k]
        /\ hold'[Len(hold) + 1] = rs
    <2>1. hold \in Seq(Request) /\ rs \in Request
      BY <1>4
    <2> HIDE DEF rs
    <2> QED BY <1>5, <2>1
  <1>9. \A k \in DOMAIN hold : hold[k].resource_id # r /\ ~SingleHold
    BY <1>1, <1>2, <1>4, <1>7, HeldAndDue
  <1>10. rs \in Asked(current) /\ rs.duration > 0 /\ rs.at \in Nat /\ rs.duration \in Nat
         /\ rs = [resource_id |-> r, at |-> rs.at, duration |-> rs.duration]
    <2>1. rs \in Asked(current)
      BY <1>1, <1>2, <1>4 DEF PendingInv
    <2> QED BY <1>1, <1>2, <2>1, AskedFacts
  <1>11. PendingInv'
    <2>1. \A j \in DOMAIN acq' : was[j] \in DOMAIN acq /\ acq'[j] = acq[was[j]]
      BY <1>5, <1>6
    <2>2. \A j, k \in DOMAIN acq' : j < k => was[j] < was[k]
      BY <1>5, <1>6
    <2>3. \A j \in DOMAIN acq' : /\ acq'[j] \in Asked(current)
                                 /\ acq'[j].at >= age[current]
      BY <1>1, <1>2, <2>1 DEF PendingInv
    <2>4. \A j, k \in DOMAIN acq' : j < k => Earlier(current, acq'[j], acq'[k])
      BY <1>1, <1>2, <2>1, <2>2 DEF PendingInv
    <2> QED BY <1>1, <1>2, <1>5, <2>3, <2>4, SameScript DEF PendingInv
  <1>12. ASSUME NEW j \in DOMAIN acq'
         PROVE  /\ acq'[j] # rs
                /\ acq'[j].at = rs.at => Earlier(current, rs, acq'[j])
                /\ \E k \in DOMAIN acq : acq'[j] = acq[k]
    <2> DEFINE k == was[j]
    <2>1. k \in DOMAIN acq /\ k # i /\ acq'[j] = acq[k] /\ k \in 1 .. Len(acq)
      BY <1>4, <1>5, <1>6
    <2> HIDE DEF k
    <2>2. CASE k < i
      <3>1. Earlier(current, acq[k], rs)
        BY <1>1, <1>2, <2>1, <2>2 DEF PendingInv
      <3>2. acq[k] # rs
        BY <1>1, <1>2, <3>1, EarlierFacts
      <3>3. acq[k].at # age[current]
        BY <1>4, <2>1, <2>2
      <3> QED BY <1>4, <2>1, <3>2, <3>3
    <2>3. CASE i < k
      <3>1. Earlier(current, rs, acq[k])
        BY <1>1, <1>2, <2>1, <2>3 DEF PendingInv
      <3>2. acq[k] # rs
        BY <1>1, <1>2, <3>1, EarlierFacts
      <3> QED BY <2>1, <3>1, <3>2
    <2> QED BY <1>4, <2>1, <2>2, <2>3
  <1>13. HoldingInv'
    <2> SUFFICES ASSUME NEW p \in Procs, NEW k \in DOMAIN holding'[p]
                 PROVE  /\ holding'[p][k].duration > 0 /\ holding'[p][k].at <= age[p]
                        /\ Origin(p, k)' \in Asked(p)
                        /\ \A j \in DOMAIN to_acquire'[p] :
                             /\ to_acquire'[p][j] # Origin(p, k)'
                             /\ to_acquire'[p][j].at = holding'[p][k].at
                                  => Earlier(p, Origin(p, k)', to_acquire'[p][j])
      BY <1>2, SameScript DEF HoldingInv
    <2>1. CASE p # current
      <3>1. holding'[p] = holding[p] /\ to_acquire'[p] = to_acquire[p]
        BY <1>5, <2>1
      <3>2. Origin(p, k)' = Origin(p, k)
        BY <1>2, <1>7, <3>1 DEF Origin
      <3> QED BY <1>1, <3>1, <3>2 DEF HoldingInv
    <2>2. CASE p = current /\ k \in 1 .. Len(hold)
      <3>1. hold'[k] = hold[k] /\ k \in DOMAIN hold
        BY <1>8, <2>2
      <3>2. Origin(p, k)' = Origin(p, k)
        BY <1>2, <1>7, <2>2, <3>1 DEF Origin
      <3> QED BY <1>1, <1>2, <1>12, <2>2, <3>1, <3>2 DEF HoldingInv
    <2>3. CASE p = current /\ k = Len(hold) + 1
      <3>1. hold'[k] = rs
        BY <1>8, <2>3
      <3>2. Origin(p, k)' = [resource_id |-> r, at |-> rs.at,
                             duration |-> rs.duration + age[current] - 0 - rs.at]
        BY <1>2, <1>7, <2>3, <3>1 DEF Origin
      <3>3. rs.duration + age[current] - 0 - rs.at = rs.duration
        BY <1>4, <1>10
      <3>4. Origin(p, k)' = rs
        BY <1>10, <3>2, <3>3
      <3> QED BY <1>4, <1>10, <1>2, <1>12, <2>3, <3>1, <3>4
    <2>4. p = current => k \in 1 .. Len(hold) \/ k = Len(hold) + 1
      BY <1>2, <1>8
    <2> QED BY <2>1, <2>2, <2>3, <2>4
  <1>14. HeldOnce'
    <2> SUFFICES ASSUME NEW p \in Procs, NEW k \in DOMAIN holding'[p],
                        NEW l \in DOMAIN holding'[p], k # l
                 PROVE  /\ ~SingleHold
                        /\ holding'[p][k].resource_id # holding'[p][l].resource_id
      BY <1>2, SameScript DEF HeldOnce
    <2>1. CASE p # current
      BY <1>1, <1>5, <2>1 DEF HeldOnce
    <2>2. CASE p = current
      <3>1. /\ k \in 1 .. Len(hold) + 1 /\ l \in 1 .. Len(hold) + 1
            /\ hold' = holding'[p]
        BY <1>2, <1>8, <2>2
      <3>2. CASE k \in DOMAIN hold /\ l \in DOMAIN hold
        BY <1>1, <1>8, <2>2, <3>1, <3>2 DEF HeldOnce
      <3>3. CASE k \notin DOMAIN hold
        BY <1>8, <1>9, <2>2, <3>1, <3>3
      <3>4. CASE l \notin DOMAIN hold
        BY <1>8, <1>9, <2>2, <3>1, <3>4
      <3> QED BY <3>2, <3>3, <3>4
    <2> QED BY <2>1, <2>2
  <1>15. owner' = [owner EXCEPT ![r] = current] /\ owner[r] = NULL
    <2>1. ~Holds(current, r)
      BY <1>9 DEF Holds
    <2>2. owner[r] # current
      BY <1>1, <1>2, <1>4, <2>1 DEF OwnersAgree
    <2>3. owner[r] \in Procs \cup {NULL}
      BY <1>1, <1>4 DEF TypeOK
    <2> QED BY <1>1, <1>2, <1>3, <2>2, <2>3 DEF UniquePids
  <1>16. OwnersAgree'
    <2> SUFFICES ASSUME NEW s \in Resources, NEW p \in Procs
                 PROVE  owner'[s] = p <=> Holds(p, s)'
      BY DEF OwnersAgree
    <2>1. owner'[s] = IF s = r THEN current ELSE owner[s]
      BY <1>1, <1>4, <1>15 DEF TypeOK
    <2>2. Holds(p, s)' <=> Holds(p, s) \/ (p = current /\ s = r)
      <3>1. CASE p # current
        BY <1>5, <3>1 DEF Holds
      <3>2. CASE p = current
        <4>1. holding[p] = hold /\ holding'[p] = hold'
          BY <1>2, <3>2
        <4>2. DOMAIN hold' = DOMAIN hold \cup {Len(hold) + 1}
          BY <1>8
        <4>3. \A k \in DOMAIN hold : hold'[k] = hold[k]
          BY <1>8
        <4>4. hold'[Len(hold) + 1].resource_id = r
          BY <1>8
        <4> HIDE DEF hold, r
        <4> QED BY <3>2, <4>1, <4>2, <4>3, <4>4 DEF Holds
      <3> QED BY <3>1, <3>2
    <2>3. owner[s] = p <=> Holds(p, s)
      BY <1>1 DEF OwnersAgree
    <2> QED BY <1>2, <1>15, <2>1, <2>2, <2>3, LifeFacts DEF AllInv
  <1>17. Unborn'
    <2>1. \A p \in Range(forkqueue) : p # current /\ p \in Procs
      BY <1>2, LifeFacts DEF AllInv, Attached
    <2> QED BY <1>1, <1>2, <1>3, <1>5, <2>1, LifeFacts DEF AllInv, Unborn
  <1> QED BY <1>2, <1>11, <1>13, <1>14, <1>16, <1>17 DEF SoundInv, NothingWanted

LEMMA SoundProgress == ASSUME AllInv, Sound, SoundInv, Progress PROVE SoundInv'
  <1>1. /\ PendingInv /\ HoldingInv /\ HeldOnce /\ OwnersAgree /\ Unborn /\ TypeOK
    BY LifeFacts DEF SoundInv, AllInv
  <1>2. /\ pc = "acquire" /\ pc' = "release" /\ current # NULL /\ cursor' = 1
        /\ current \in Procs /\ current' = current /\ owner' = owner
        /\ script' = script /\ forkqueue' = forkqueue /\ wanted' = wanted
        /\ to_acquire' = to_acquire /\ holding' = holding
        /\ \A i \in DOMAIN to_acquire[current] : to_acquire[current][i].at # age[current]
    BY LifeFacts DEF AllInv, Inv, TypeInv, SomebodyRuns, Progress, configVars, queueVars,
                     DueRequest
  <1>3. \A p \in Procs : /\ age'[p] = IF p = current THEN age[p] + 1 ELSE age[p]
                         /\ age[p] \in Nat
    BY LifeFacts DEF AllInv, Progress
  <1>4. wanted[current] = NULL
    BY <1>2 DEF AllInv, LifeInv, RefusedIsFirst
  <1>5. \A p \in Procs : \A i \in DOMAIN to_acquire[p] :
          to_acquire[p][i] \in Asked(p) /\ to_acquire[p][i].at \in Nat
    BY <1>1, AskedFacts DEF PendingInv
  <1>6. PendingInv'
    <2>1. \A p \in Procs : \A i \in DOMAIN to_acquire[p] : to_acquire[p][i].at >= age'[p]
      BY <1>1, <1>2, <1>3, <1>5 DEF PendingInv
    <2> QED BY <1>1, <1>2, <2>1, SameScript DEF PendingInv
  <1>7. ASSUME NEW p \in Procs, NEW i \in DOMAIN holding[p]
        PROVE  /\ Origin(p, i)' = Origin(p, i) /\ holding[p][i].at <= age'[p]
    <2>1. holding[p] \in Seq(Request)
      BY <1>1 DEF TypeOK
    <2>2. holding[p][i] \in Request /\ i >= 1
      BY <2>1
    <2>3. holding[p][i].duration \in Int /\ holding[p][i].at \in Nat
      BY <2>2 DEF Request
    <2>4. Lag(p, i) = 0 /\ Lag(p, i)' = IF p = current THEN 1 ELSE 0
      BY <1>2, <2>2 DEF Lag
    <2>5. holding[p][i].duration + age'[p] - Lag(p, i)' - holding[p][i].at
            = holding[p][i].duration + age[p] - Lag(p, i) - holding[p][i].at
      BY <1>3, <2>3, <2>4
    <2>6. Origin(p, i)' = Origin(p, i)
      BY <1>2, <2>5 DEF Origin
    <2>7. holding[p][i].at <= age[p]
      BY <1>1 DEF HoldingInv
    <2> QED BY <1>3, <2>3, <2>6, <2>7
  <1>8. HoldingInv'
    BY <1>1, <1>2, <1>7, SameScript DEF HoldingInv
  <1>9. HeldOnce' /\ OwnersAgree'
    BY <1>1, <1>2, SameScript DEF HeldOnce, OwnersAgree, Holds
  <1> QED BY <1>1, <1>2, <1>4, <1>6, <1>8, <1>9 DEF SoundInv, Unborn, NothingWanted

LEMMA SoundKeepHolding == ASSUME AllInv, Sound, SoundInv, KeepHolding PROVE SoundInv'
  <1>1. /\ PendingInv /\ HoldingInv /\ HeldOnce /\ OwnersAgree /\ Unborn /\ TypeOK
        /\ NothingWanted
    BY LifeFacts DEF SoundInv, AllInv
  <1> DEFINE hold == holding[current]
  <1>2. /\ pc = "release" /\ pc' = pc /\ current # NULL /\ cursor' = cursor + 1
        /\ current \in Procs /\ current' = current /\ owner' = owner
        /\ script' = script /\ forkqueue' = forkqueue /\ wanted' = wanted
        /\ to_acquire' = to_acquire /\ age' = age
        /\ hold \in Seq(Request) /\ cursor \in 1 .. Len(hold)
        /\ hold[cursor] \in Request /\ hold[cursor].duration - 1 # 0
        /\ ~Attached(current)
    BY LifeFacts, EntryFacts
       DEF AllInv, KeepHolding, configVars, queueVars, Entry, CurrentDetached
  <1> DEFINE e == [hold[cursor] EXCEPT !.duration = @ - 1]
  <1>3. /\ holding'[current] = [hold EXCEPT ![cursor] = e]
        /\ \A p \in Procs \ {current} : holding'[p] = holding[p]
    <2>1. holding' = [holding EXCEPT ![current] = [hold EXCEPT ![cursor] = e]]
      BY DEF KeepHolding
    <2> HIDE DEF hold, e
    <2> QED BY <1>1, <1>2, <2>1 DEF TypeOK
  <1>4. /\ e.resource_id = hold[cursor].resource_id /\ e.at = hold[cursor].at
        /\ e.duration = hold[cursor].duration - 1
    BY <1>2 DEF Request
  <1>5. \A p \in Procs :
          /\ DOMAIN holding'[p] = DOMAIN holding[p]
          /\ \A i \in DOMAIN holding[p] :
               /\ holding'[p][i].resource_id = holding[p][i].resource_id
               /\ holding'[p][i].at = holding[p][i].at
               /\ holding'[p][i].duration =
                    IF p = current /\ i = cursor THEN holding[p][i].duration - 1
                                                 ELSE holding[p][i].duration
    <2>1. /\ DOMAIN holding'[current] = DOMAIN hold
          /\ \A i \in DOMAIN hold : holding'[current][i] = IF i = cursor THEN e ELSE hold[i]
      <3> HIDE DEF e
      <3> QED BY <1>2, <1>3
    <2> HIDE DEF e
    <2> QED BY <1>2, <1>3, <1>4, <2>1
  <1>6. ASSUME NEW p \in Procs, NEW i \in DOMAIN holding[p]
        PROVE  Origin(p, i)' = Origin(p, i) /\ holding'[p][i].duration > 0
    <2>1. holding[p] \in Seq(Request) /\ age[p] \in Nat
      BY <1>1 DEF TypeOK
    <2>2. holding[p][i] \in Request /\ i \in Nat /\ cursor \in Nat
      BY <1>2, <2>1
    <2>3. holding[p][i].duration \in Int /\ holding[p][i].at \in Nat
          /\ holding[p][i].duration > 0
      BY <1>1, <2>2 DEF Request, HoldingInv
    <2>4. /\ Lag(p, i) = IF p = current /\ i >= cursor THEN 1 ELSE 0
          /\ Lag(p, i)' = IF p = current /\ i >= cursor + 1 THEN 1 ELSE 0
      BY <1>2 DEF Lag
    <2>5. holding'[p][i].duration + age[p] - Lag(p, i)' - holding[p][i].at
            = holding[p][i].duration + age[p] - Lag(p, i) - holding[p][i].at
      <3>1. CASE p = current /\ i = cursor
        <4>1. Lag(p, i) = 1 /\ Lag(p, i)' = 0
          BY <2>2, <2>4, <3>1
        <4>2. holding'[p][i].duration = holding[p][i].duration - 1
          BY <1>5, <3>1
        <4>3. \A d, a, t \in Int : (d - 1) + a - 0 - t = d + a - 1 - t
          OBVIOUS
        <4>4. /\ holding[p][i].duration \in Int /\ age[p] \in Int
              /\ holding[p][i].at \in Int
          BY <2>1, <2>3
        <4> QED BY <4>1, <4>2, <4>3, <4>4
      <3>2. CASE ~(p = current /\ i = cursor)
        <4>1. Lag(p, i) = Lag(p, i)'
          BY <2>2, <2>4, <3>2
        <4>2. holding'[p][i].duration = holding[p][i].duration
          BY <1>5, <3>2
        <4>3. Lag(p, i) \in Int
          BY <2>4
        <4> QED BY <2>1, <2>3, <4>1, <4>2, <4>3
      <3> QED BY <3>1, <3>2
    <2>6. Origin(p, i)' = Origin(p, i)
      BY <1>2, <1>5, <2>5 DEF Origin
    <2>7. holding'[p][i].duration > 0
      BY <1>2, <1>5, <2>3
    <2> QED BY <2>6, <2>7
  <1>7. PendingInv'
    BY <1>1, <1>2, SameScript DEF PendingInv
  <1>8. HoldingInv'
    BY <1>1, <1>2, <1>5, <1>6, SameScript DEF HoldingInv
  <1>9. HeldOnce' /\ OwnersAgree'
    BY <1>1, <1>2, <1>5, SameScript DEF HeldOnce, OwnersAgree, Holds
  <1>10. Unborn'
    <2>1. \A p \in Range(forkqueue) : p # current /\ p \in Procs
      BY <1>2, LifeFacts DEF AllInv, Attached
    <2> QED BY <1>1, <1>2, <1>3, <2>1 DEF Unborn
  <1> QED BY <1>1, <1>2, <1>7, <1>8, <1>9, <1>10 DEF SoundInv, NothingWanted

LEMMA SoundRelease == ASSUME AllInv, Sound, SoundInv, Release PROVE SoundInv'
  <1>1. /\ PendingInv /\ HoldingInv /\ HeldOnce /\ OwnersAgree /\ Unborn /\ TypeOK
        /\ NothingWanted
    BY LifeFacts DEF SoundInv, AllInv
  <1> DEFINE hold == holding[current]
  <1> DEFINE r == Entry.resource_id
  <1>2. /\ pc = "release" /\ pc' = pc /\ current # NULL /\ cursor' = cursor
        /\ current \in Procs /\ current' = current
        /\ script' = script /\ forkqueue' = forkqueue /\ wanted' = wanted
        /\ to_acquire' = to_acquire /\ age' = age
        /\ hold \in Seq(Request) /\ cursor \in 1 .. Len(hold)
        /\ r \in Resources /\ r = hold[cursor].resource_id
        /\ owner[r] = current /\ owner' = [owner EXCEPT ![r] = NULL]
        /\ holding' = [holding EXCEPT ![current] = RemoveAt(@, cursor)]
        /\ ~Attached(current)
    BY LifeFacts, ReleaseEffect
       DEF AllInv, configVars, loopVars, CurrentDetached, Entry
  <1> HIDE DEF r
  <1>3. /\ holding'[current] = RemoveAt(hold, cursor)
        /\ \A p \in Procs \ {current} : holding'[p] = holding[p]
    BY <1>1, <1>2 DEF TypeOK
  <1>4. PICK was \in [DOMAIN RemoveAt(hold, cursor) -> DOMAIN hold \ {cursor}] :
          /\ \A j \in DOMAIN RemoveAt(hold, cursor) :
               /\ RemoveAt(hold, cursor)[j] = hold[was[j]]
               /\ j >= cursor <=> was[j] >= cursor
          /\ \A j, k \in DOMAIN RemoveAt(hold, cursor) : j < k <=> was[j] < was[k]
          /\ \A k \in DOMAIN hold \ {cursor} :
               \E j \in DOMAIN RemoveAt(hold, cursor) : was[j] = k
    <2>1. hold \in Seq(Request) /\ cursor \in 1 .. Len(hold)
      BY <1>2
    <2> HIDE DEF hold
    <2> QED BY <2>1, RemoveAtIndices
  <1> DEFINE new == DOMAIN holding'[current]
  <1>5. /\ \A j \in new : /\ was[j] \in DOMAIN hold /\ was[j] # cursor
                          /\ holding'[current][j] = hold[was[j]]
                          /\ j >= cursor <=> was[j] >= cursor
        /\ \A j, k \in new : j < k <=> was[j] < was[k]
        /\ \A k \in DOMAIN hold \ {cursor} : \E j \in new : was[j] = k
    BY <1>3, <1>4
  <1>6. RemoveAt(hold, cursor) \in Seq(Request)
    <2>1. hold \in Seq(Request) /\ cursor \in 1 .. Len(hold)
      BY <1>2
    <2> HIDE DEF hold
    <2> QED BY <2>1, RemoveAtEntries
  <1>7. new \subseteq Nat
    BY <1>3, <1>6
  <1> HIDE DEF new
  <1>8. ASSUME NEW p \in Procs, p = current, NEW j \in new
        PROVE  Origin(p, j)' = Origin(p, was[j])
    <2>1. holding'[p][j] = holding[p][was[j]]
      BY <1>5, <1>8
    <2>2. Lag(p, j)' = Lag(p, was[j])
      BY <1>2, <1>5, <1>8 DEF Lag
    <2> QED BY <1>2, <2>1, <2>2 DEF Origin
  <1>9. ASSUME NEW p \in Procs \ {current}, NEW j \in DOMAIN holding[p]
        PROVE  Origin(p, j)' = Origin(p, j)
    BY <1>2, <1>3 DEF Origin, Lag
  <1>10. PendingInv'
    BY <1>1, <1>2, SameScript DEF PendingInv
  <1>11. HoldingInv'
    <2> SUFFICES ASSUME NEW p \in Procs, NEW j \in DOMAIN holding'[p]
                 PROVE  /\ holding'[p][j].duration > 0 /\ holding'[p][j].at <= age[p]
                        /\ Origin(p, j)' \in Asked(p)
                        /\ \A k \in DOMAIN to_acquire[p] :
                             /\ to_acquire[p][k] # Origin(p, j)'
                             /\ to_acquire[p][k].at = holding'[p][j].at
                                  => Earlier(p, Origin(p, j)', to_acquire[p][k])
      BY <1>2, SameScript DEF HoldingInv
    <2>1. CASE p # current
      BY <1>1, <1>3, <1>9, <2>1 DEF HoldingInv
    <2>2. CASE p = current
      <3>1. /\ j \in new /\ was[j] \in DOMAIN holding[p]
            /\ holding'[p][j] = holding[p][was[j]]
        BY <1>5, <2>2 DEF new
      <3>2. Origin(p, j)' = Origin(p, was[j])
        BY <1>8, <2>2, <3>1
      <3> QED BY <1>1, <3>1, <3>2 DEF HoldingInv
    <2> QED BY <2>1, <2>2
  <1>12. HeldOnce'
    <2> SUFFICES ASSUME NEW p \in Procs, NEW j \in DOMAIN holding'[p],
                        NEW k \in DOMAIN holding'[p], j # k
                 PROVE  /\ ~SingleHold
                        /\ holding'[p][j].resource_id # holding'[p][k].resource_id
      BY <1>2, SameScript DEF HeldOnce
    <2>1. CASE p # current
      BY <1>1, <1>3, <2>1 DEF HeldOnce
    <2>2. CASE p = current
      <3>1. j \in new /\ k \in new /\ j \in Nat /\ k \in Nat
        BY <1>7, <2>2 DEF new
      <3>2. was[j] # was[k]
        <4>1. was[j] \in Nat /\ was[k] \in Nat
          BY <1>2, <1>5, <3>1
        <4>2. j < k \/ k < j
          BY <3>1
        <4> QED BY <1>5, <3>1, <4>1, <4>2
      <3> QED BY <1>1, <1>2, <1>5, <2>2, <3>1, <3>2 DEF HeldOnce
    <2> QED BY <2>1, <2>2
  <1>13. OwnersAgree'
    <2> SUFFICES ASSUME NEW s \in Resources, NEW p \in Procs
                 PROVE  owner'[s] = p <=> Holds(p, s)'
      BY DEF OwnersAgree
    <2>1. owner'[s] = IF s = r THEN NULL ELSE owner[s]
      BY <1>1, <1>2 DEF TypeOK
    <2>2. owner[s] = p <=> Holds(p, s)
      BY <1>1 DEF OwnersAgree
    <2>3. CASE p # current
      <3>1. Holds(p, s)' <=> Holds(p, s)
        BY <1>3, <2>3 DEF Holds
      <3> QED BY <1>2, <2>1, <2>2, <2>3, <3>1, LifeFacts DEF AllInv
    <2>4. CASE p = current
      <3>1. Holds(p, s)' <=> \E j \in new : hold[was[j]].resource_id = s
        BY <1>5, <2>4 DEF Holds, new
      <3>2. Holds(p, s) <=> \E k \in DOMAIN hold : hold[k].resource_id = s
        BY <2>4 DEF Holds
      <3>3. CASE s = r
        <4>1. \A k \in DOMAIN hold : k # cursor => hold[k].resource_id # s
          BY <1>1, <1>2, <3>3 DEF HeldOnce
        <4> QED BY <1>2, <1>5, <2>1, <2>4, <3>1, <3>3, <4>1, LifeFacts DEF AllInv
      <3>4. CASE s # r
        <4>1. Holds(p, s)' <=> Holds(p, s)
          <5>1. ASSUME NEW k \in DOMAIN hold, hold[k].resource_id = s
                PROVE  \E j \in new : hold[was[j]].resource_id = s
            <6>1. k # cursor
              BY <1>2, <3>4, <5>1
            <6>2. PICK j \in new : was[j] = k
              BY <1>5, <5>1, <6>1
            <6> QED BY <5>1, <6>2
          <5>2. ASSUME NEW j \in new, hold[was[j]].resource_id = s
                PROVE  \E k \in DOMAIN hold : hold[k].resource_id = s
            BY <1>5, <5>2
          <5> QED BY <3>1, <3>2, <5>1, <5>2
        <4> QED BY <2>1, <2>2, <3>4, <4>1
      <3> QED BY <3>3, <3>4
    <2> QED BY <2>3, <2>4
  <1>14. Unborn'
    <2>1. \A p \in Range(forkqueue) : p # current /\ p \in Procs
      BY <1>2, LifeFacts DEF AllInv, Attached
    <2> QED BY <1>1, <1>2, <1>3, <2>1 DEF Unborn
  <1> QED BY <1>1, <1>2, <1>10, <1>11, <1>12, <1>13, <1>14 DEF SoundInv, NothingWanted

(* No assertion fails.                                                     *)
LEMMA EmptyList ==
    ASSUME NEW S, NEW s \in Seq(S), DOMAIN s = {}
    PROVE  s = <<>>
  OBVIOUS

LEMMA HeldWithTimeLeft ==
    ASSUME TypeOK, Sound, HoldingInv, NEW p \in Procs, holding[p] # <<>>, pc # "release"
    PROVE  age[p] < Lifespan(p)
  <1>1. holding[p] \in Seq(Request) /\ age[p] \in Nat /\ Lifespan(p) \in Nat
    BY ScriptNumbers DEF TypeOK
  <1>2. PICK i \in DOMAIN holding[p] : TRUE
    BY <1>1, EmptyList
  <1> DEFINE a == Origin(p, i)
  <1>3. holding[p][i] \in Request
    BY <1>1, <1>2
  <1>4. holding[p][i].at \in Nat /\ holding[p][i].duration \in Int
        /\ holding[p][i].duration > 0
    BY <1>2, <1>3 DEF Request, HoldingInv
  <1>5. Lag(p, i) = 0
    BY DEF Lag
  <1>6. a.at = holding[p][i].at
        /\ a.duration = holding[p][i].duration + age[p] - 0 - holding[p][i].at
    BY <1>5 DEF Origin
  <1>7. a.at + a.duration <= Lifespan(p)
    <2>1. a \in Asked(p)
      BY <1>2 DEF HoldingInv
    <2> HIDE DEF a
    <2> QED BY <2>1, AskedFacts
  <1> HIDE DEF a
  <1> QED BY <1>1, <1>4, <1>6, <1>7

LEMMA ExitIsClean ==
    ASSUME AllInv, Sound, SoundInv, pc = "retire", prev # NULL, Completed(prev)
    PROVE  ExitAsserts(prev)
  <1>1. /\ TypeOK /\ PendingInv /\ HoldingInv /\ WaitersWait /\ TimeLeft
        /\ prev \in Procs /\ age[prev] \in Nat /\ Lifespan(prev) \in Nat
        /\ age[prev] = Lifespan(prev)
    BY LifeFacts DEF AllInv, LifeInv, SoundInv, Completed
  <1>2. Lifespan(prev) > 0
    BY <1>1 DEF Sound, WellFormed
  <1>3. ~HasTime(prev)
    BY <1>1, <1>2 DEF HasTime
  <1>4. ~Attached(prev)
    BY <1>1, <1>3 DEF TimeLeft, Attached, WaitersWait, Waiting
  <1>5. holding[prev] = <<>>
    BY <1>1, HeldWithTimeLeft
  <1>6. to_acquire[prev] = <<>>
    <2>1. to_acquire[prev] \in Seq(Request)
      BY <1>1 DEF TypeOK
    <2>2. ASSUME NEW i \in DOMAIN to_acquire[prev] PROVE FALSE
      <3>1. to_acquire[prev][i] \in Asked(prev) /\ to_acquire[prev][i].at >= age[prev]
        BY <1>1 DEF PendingInv
      <3> DEFINE a == to_acquire[prev][i]
      <3>2. a.at \in Nat /\ a.duration \in Nat /\ a.duration > 0
            /\ a.at + a.duration <= Lifespan(prev)
        BY <1>1, <3>1, AskedFacts
      <3> HIDE DEF a
      <3> QED BY <1>1, <3>1, <3>2 DEF a
    <2> QED BY <2>1, <2>2, EmptyList
  <1> QED BY <1>4, <1>5, <1>6 DEF ExitAsserts

LEMMA ReleaseIsClean ==
    ASSUME AllInv, SoundInv, pc = "release", cursor <= Len(holding[current])
    PROVE  ReleaseAsserts(Entry.resource_id)
  <1>1. /\ current \in Procs /\ cursor \in 1 .. Len(holding[current])
        /\ Entry.resource_id \in Resources /\ holding[current] \in Seq(Request)
    BY EntryFacts DEF AllInv
  <1>2. Holds(current, Entry.resource_id)
    BY <1>1 DEF Holds, Entry
  <1>3. owner[Entry.resource_id] = current
    BY <1>1, <1>2 DEF SoundInv, OwnersAgree
  <1>4. \A i \in DOMAIN waitqueue[Entry.resource_id] :
          status[waitqueue[Entry.resource_id][i]] = "WAIT"
    BY <1>1, LifeFacts DEF AllInv, WaitersWait, Range
  <1> QED BY <1>3, <1>4 DEF ReleaseAsserts

LEMMA SoundOthers ==
    ASSUME AllInv, Sound, SoundInv,
           \/ Fork \/ Schedule \/ Retire \/ Quit \/ Idle \/ Dispatch \/ Refused
           \/ ReleaseAborts \/ EndTick \/ UNCHANGED vars
    PROVE  SoundInv'
  <1> USE DEF configVars, loopVars, queueVars, processVars
  <1>1. /\ script' = script /\ age' = age /\ to_acquire' = to_acquire
        /\ holding' = holding /\ owner' = owner
    <2>1. Refused => owner' = owner
      BY DEF Refused
    <2> QED BY <2>1 DEF Fork, Schedule, Retire, Quit, Idle, Dispatch, Refused,
                        ReleaseAborts, EndTick, vars
  <1>2. Range(forkqueue') \subseteq Range(forkqueue)
    <2>1. Fork => Range(forkqueue') \subseteq Range(forkqueue)
      BY ForkEffect DEF AllInv
    <2> QED BY <2>1 DEF Schedule, Retire, Quit, Idle, Dispatch, Refused,
                        ReleaseAborts, EndTick, vars
  <1>3. \A p \in Range(forkqueue') : wanted'[p] = wanted[p]
    <2>1. ASSUME Refused, NEW p \in Range(forkqueue') PROVE wanted'[p] = wanted[p]
      <3>1. forkqueue' = forkqueue /\ current \notin Range(forkqueue)
            /\ \E r : wanted' = [wanted EXCEPT ![current] = r]
        BY <2>1, LifeFacts DEF AllInv, Refused, CurrentDetached
      <3>2. p \in Procs
        BY <2>1, <3>1, LifeFacts DEF AllInv
      <3> QED BY <2>1, <3>1, <3>2, LifeFacts DEF AllInv
    <2>2. Refused \/ wanted' = wanted
      BY DEF Fork, Schedule, Retire, Quit, Idle, Dispatch, ReleaseAborts, EndTick, vars
    <2> QED BY <2>1, <2>2
  <1>4. pc # "aborted" /\ pc' # "aborted"
    <2>1. pc # "aborted"
      BY DEF SoundInv
    <2>2. ~ReleaseAborts
      BY ReleaseIsClean DEF ReleaseAborts
    <2>3. Retire => pc' # "aborted"
      BY ExitIsClean DEF Retire
    <2>4. Dispatch => pc' # "aborted"
      BY LifeFacts DEF AllInv, Dispatch, CurrentDetached
    <2> QED BY <2>1, <2>2, <2>3, <2>4
        DEF Fork, Schedule, Quit, Idle, Refused, EndTick, Tick, vars
  <1>5. \/ pc # "release" /\ pc' # "release"
        \/ EndTick
        \/ UNCHANGED vars
    BY <1>4 DEF Fork, Schedule, Retire, Quit, Idle, Dispatch, Refused, ReleaseAborts, Tick
  <1>6. ASSUME NEW p \in Procs, NEW i \in DOMAIN holding[p]
        PROVE  Lag(p, i)' = Lag(p, i)
    <2>1. CASE pc # "release" /\ pc' # "release"
      BY <2>1 DEF Lag
    <2>2. CASE EndTick
      <3>1. /\ current' = current /\ pc = "release" /\ pc' = "fork"
            /\ cursor > Len(holding[current])
        BY <2>2 DEF EndTick, Tick
      <3>2. holding[p] \in Seq(Request) /\ cursor \in Nat
        BY LifeFacts DEF AllInv, TypeOK
      <3>3. p = current => ~(i >= cursor)
        BY <3>1, <3>2
      <3> QED BY <3>1, <3>3 DEF Lag
    <2>3. CASE UNCHANGED vars
      BY <2>3 DEF Lag, vars
    <2> QED BY <1>5, <2>1, <2>2, <2>3
  <1>7. pc' = "release" => pc = "release" /\ UNCHANGED <<current, wanted>>
    BY <1>5 DEF EndTick, Tick, vars
  <1> QED BY <1>1, <1>2, <1>3, <1>4, <1>6, <1>7, SoundStill

LEMMA SoundStep == AllInv /\ Sound /\ SoundInv /\ [Next]_vars => SoundInv'
  BY SoundGranted, SoundProgress, SoundKeepHolding, SoundRelease, SoundOthers DEF Next

LEMMA PrioInit == Init => PrioInv
  BY DEF Init, PrioInv

(* PCP and PIP raise only an owner, and a release ends it.                 *)
LEMMA PrioStep == AllInv /\ Sound /\ SoundInv /\ PrioInv /\ [Next]_vars => PrioInv'
  <1> SUFFICES ASSUME AllInv, Sound, SoundInv, PrioInv, [Next]_vars,
                      sched' \in {"pcp", "pip"}, NEW p \in Procs, holding'[p] = <<>>
               PROVE  prio'[p] = PrioOrig(p)'
    BY DEF PrioInv
  <1> USE DEF configVars, loopVars, queueVars, processVars
  <1>1. sched' = sched /\ PrioOrig(p)' = PrioOrig(p)
    BY SameScript DEF Next, Fork, Schedule, Retire, Quit, Idle, Dispatch, Granted, Refused,
                      Progress, KeepHolding, Release, ReleaseAborts, EndTick, vars
  <1>2. holding[p] = <<>> => prio[p] = PrioOrig(p)
    BY <1>1 DEF PrioInv
  <1>3. CASE Fork \/ Schedule
    <2>1. holding' = holding /\ prio' = prio
      BY <1>1, <1>3 DEF Fork, SchedForked, Schedule, SchedSchedule, PcpSchedule,
                        PipSchedule, PrioSchedule
    <2> QED BY <1>1, <1>2, <2>1
  <1>4. CASE Granted
    <2>1. PICK i \in DOMAIN to_acquire[current] :
            /\ SchedAcquire(to_acquire[current][i].resource_id, TRUE)
            /\ holding' = [holding EXCEPT ![current] = Append(@, to_acquire[current][i])]
      BY <1>4, GrantedEffect DEF AllInv
    <2>2. current \in Procs /\ holding[current] \in Seq(Request)
          /\ to_acquire[current][i] \in Request
      BY <1>4, GrantedEffect, RequestFacts, LifeFacts DEF AllInv
    <2>3. p # current
      <3>1. Append(holding[current], to_acquire[current][i]) # <<>>
        BY <2>2
      <3> QED BY <2>1, <2>2, <3>1, LifeFacts DEF AllInv, TypeOK
    <2>4. holding'[p] = holding[p]
      BY <2>1, <2>3, LifeFacts DEF AllInv, TypeOK
    <2>5. prio'[p] = prio[p]
      BY <1>1, <2>1, <2>2, <2>3, LifeFacts
         DEF AllInv, SchedAcquire, PcpAcquire, PipAcquire
    <2> QED BY <1>1, <1>2, <2>4, <2>5
  <1>5. CASE Refused
    <2>1. holding' = holding /\ current \in Procs
      BY <1>5, RefusedEffect DEF AllInv
    <2>2. PICK r \in Resources : SchedAcquire(r, FALSE) /\ owner[r] # NULL
      BY <1>5, RefusedEffect DEF AllInv
    <2>3. owner[r] \in Procs
      BY <2>2, LifeFacts DEF AllInv, TypeOK
    <2>4. owner[r] # p
      <3>1. ~Holds(p, r)
        BY <2>1 DEF Holds
      <3> QED BY <3>1 DEF SoundInv, OwnersAgree
    <2>5. prio'[p] = prio[p]
      BY <1>1, <2>2, <2>3, <2>4, LifeFacts
         DEF AllInv, SchedAcquire, PcpAcquire, PipAcquire, Donate
    <2> QED BY <1>1, <1>2, <2>1, <2>5
  <1>6. CASE Release
    <2>1. /\ current \in Procs /\ SchedRelease(Entry.resource_id)
          /\ holding' = [holding EXCEPT ![current] = RemoveAt(@, cursor)]
      BY <1>6, ReleaseEffect DEF AllInv
    <2>2. prio' = [prio EXCEPT ![current] = PrioOrig(current)]
      BY <1>1, <2>1 DEF SchedRelease, PcpRelease, PipRelease, ResetPrio
    <2>3. p # current => holding'[p] = holding[p]
      BY <2>1, LifeFacts DEF AllInv, TypeOK
    <2> QED BY <1>1, <1>2, <2>1, <2>2, <2>3, LifeFacts DEF AllInv
  <1>7. CASE KeepHolding
    <2>1. prio' = prio /\ current \in Procs
      BY <1>7, LifeFacts DEF AllInv, Inv, TypeInv, SomebodyRuns, KeepHolding
    <2>2. DOMAIN holding'[p] = DOMAIN holding[p]
      BY <1>7, <2>1, LifeFacts DEF AllInv, TypeOK, KeepHolding
    <2>3. holding[p] \in Seq(Request)
      BY LifeFacts DEF AllInv, TypeOK
    <2>4. DOMAIN holding'[p] = {}
      OBVIOUS
    <2>5. holding[p] = <<>>
      BY <2>2, <2>3, <2>4, EmptyList
    <2> QED BY <1>1, <1>2, <2>1, <2>5
  <1>8. CASE \/ Retire \/ Quit \/ Idle \/ Dispatch \/ Progress \/ ReleaseAborts \/ EndTick
             \/ UNCHANGED vars
    <2>1. holding' = holding /\ prio' = prio
      BY <1>8 DEF Retire, Quit, Idle, Dispatch, Progress, ReleaseAborts, EndTick, vars
    <2> QED BY <1>1, <1>2, <2>1
  <1> QED BY <1>3, <1>4, <1>5, <1>6, <1>7, <1>8 DEF Next

LEMMA ScriptStays == [Next]_vars => script' = script
  BY DEF Next, Fork, Schedule, Retire, Quit, Idle, Dispatch, Granted, Refused, Progress,
         KeepHolding, Release, ReleaseAborts, EndTick, vars, configVars

LEMMA SoundHoldsInit == Init => SoundHolds
  BY SoundInit, PrioInit DEF SoundHolds

LEMMA SoundHoldsStep == AllInv /\ SoundHolds /\ [Next]_vars => SoundHolds'
  BY ScriptStays, SameScript, SoundStep, PrioStep DEF SoundHolds

(* The owner fields and the holding lists agree: a resource is assigned to *)
(* one process at a time, the one that has it in its list.                 *)
THEOREM OwnersHoldExactly == Spec => []OwnerHolds
  <1>1. SoundHolds => OwnerHolds
    BY DEF SoundHolds, SoundInv, OwnersAgree, OwnerHolds
  <1> QED BY <1>1, AllInit, AllStep, SoundHoldsInit, SoundHoldsStep, PTL DEF Spec

(* No assertion of the framework or of a policy fails on a sound script.   *)
THEOREM NothingAborts == Spec => []NoAbort
  <1>1. SoundHolds => NoAbort
    BY DEF SoundHolds, SoundInv, NoAbort
  <1> QED BY <1>1, AllInit, AllStep, SoundHoldsInit, SoundHoldsStep, PTL DEF Spec

(* Who holds nothing has the priority of its description again.            *)
THEOREM RaisedOnlyWhileHolding == Spec => []PrioGivenBack
  <1>1. SoundHolds => PrioGivenBack
    BY DEF SoundHolds, PrioInv, PrioGivenBack
  <1> QED BY <1>1, AllInit, AllStep, SoundHoldsInit, SoundHoldsStep, PTL DEF Spec

LEMMA ConfigStays == [Next]_vars => sched' = sched /\ script' = script
  BY DEF Next, Fork, Schedule, Retire, Quit, Idle, Dispatch, Granted, Refused, Progress,
         KeepHolding, Release, ReleaseAborts, EndTick, vars, configVars

(* Everything that is proved of a state reached with a sound script.       *)
SoundState == AllInv /\ Sound /\ SoundInv /\ PrioInv

LEMMA OwnerFacts ==
    ASSUME SoundState, NEW r \in Resources, owner[r] # NULL
    PROVE  /\ owner[r] \in Procs /\ holding[owner[r]] # <<>>
           /\ \E i \in DOMAIN holding[owner[r]] : holding[owner[r]][i].resource_id = r
  <1>1. owner[r] \in Procs
    BY LifeFacts DEF SoundState, AllInv, TypeOK
  <1>2. PICK i \in DOMAIN holding[owner[r]] : holding[owner[r]][i].resource_id = r
    BY <1>1 DEF SoundState, SoundInv, OwnersAgree, Holds
  <1> QED BY <1>1, <1>2

(* Who is due to ask for a resource does not hold it, and holds nothing at *)
(* all if it never holds two.                                              *)
LEMMA AskerIsNotOwner ==
    ASSUME SoundState, NEW p \in Procs, NEW j \in DOMAIN to_acquire[p],
           to_acquire[p][j].at = age[p], pc # "release" \/ p # current
    PROVE  /\ \A r \in Resources : owner[r] = p => r # to_acquire[p][j].resource_id
           /\ SingleHold => \A r \in Resources : owner[r] # p
  <1>1. TypeOK /\ PendingInv /\ HoldingInv /\ Sound
    BY LifeFacts DEF SoundState, AllInv, SoundInv
  <1>2. ASSUME NEW r \in Resources, owner[r] = p
        PROVE  r # to_acquire[p][j].resource_id /\ ~SingleHold
    <2>1. PICK i \in DOMAIN holding[p] : holding[p][i].resource_id = r
      BY <1>2, OwnerFacts
    <2>2. Lag(p, i) = 0
      BY DEF Lag
    <2> QED BY <1>1, <2>1, <2>2, HeldAndDue
  <1> QED BY <1>2

(* Who owns nothing holds nothing, and runs at its own priority.           *)
LEMMA OwnPrio ==
    ASSUME SoundState, NEW p \in Procs, \A r \in Resources : owner[r] # p
    PROVE  /\ holding[p] = <<>>
           /\ sched \in {"pcp", "pip"} => prio[p] = PrioOrig(p)
  <1>1. holding[p] \in Seq(Request)
    BY LifeFacts DEF SoundState, AllInv, TypeOK
  <1>2. ASSUME NEW i \in DOMAIN holding[p] PROVE FALSE
    <2>1. holding[p][i] \in Request
      BY <1>1
    <2>2. holding[p][i].resource_id \in Resources
      BY <2>1 DEF Request
    <2> QED BY <2>2 DEF SoundState, SoundInv, OwnersAgree, Holds
  <1>3. holding[p] = <<>>
    BY <1>1, <1>2, EmptyList
  <1> QED BY <1>3 DEF SoundState, PrioInv

(***************************************************************************)
(* Policies under which nobody ever waits                                  *)
(***************************************************************************)
Calm == sched \in {"fifo", "sjf"} \/ (sched = "pcp" /\ UnderCeiling)

(* Only the process that has the CPU owns anything, under PCP at the       *)
(* ceiling.                                                                *)
OwnerRuns == \A r \in Resources : owner[r] # NULL => owner[r] = current
AtCeiling == sched = "pcp" =>
               \A r \in Resources : owner[r] # NULL => prio[owner[r]] = MAX_PRIO
CalmInv == OwnerRuns /\ AtCeiling /\ \A p \in Procs : ~Waiting(p)

LEMMA CalmInit == Init => CalmInv
  BY DEF Init, CalmInv, OwnerRuns, AtCeiling, Waiting

(* Who owns a resource keeps the CPU.                                      *)
LEMMA CalmSchedule ==
    ASSUME SoundState, Calm, CalmInv, Schedule
    PROVE  CalmInv'
  <1>1. /\ TypeOK /\ pc = "fork" /\ owner' = owner /\ status' = status /\ sched' = sched
        /\ holding' = holding
    BY LifeFacts DEF SoundState, AllInv, Schedule, configVars
  <1>2. prio' = prio
    BY DEF Calm, Schedule, SchedSchedule, FifoSchedule, SjfSchedule, PcpSchedule,
           PrioSchedule
  <1>3. ASSUME NEW r \in Resources, owner[r] # NULL PROVE current' = current
    <2>1. /\ current \in Procs /\ current = owner[r] /\ current # NULL
          /\ holding[current] # <<>>
      BY <1>3, OwnerFacts DEF CalmInv, OwnerRuns
    <2>2. age[current] < Lifespan(current)
      BY <1>1, <2>1, HeldWithTimeLeft DEF SoundState, SoundInv
    <2>3. MayContinue
      BY <2>1, <2>2 DEF MayContinue, CalmInv, Waiting
    <2>4. CASE sched \in {"fifo", "sjf"}
      BY <2>3, <2>4 DEF Schedule, SchedSchedule, FifoSchedule, SjfSchedule, KeepCurrent
    <2>5. CASE sched = "pcp" /\ UnderCeiling
      <3>1. Compete
        BY <2>3, <2>5 DEF Schedule, SchedSchedule, PcpSchedule, PrioSchedule
      <3>2. prio[current] = MAX_PRIO
        BY <1>3, <2>1, <2>5 DEF CalmInv, AtCeiling
      <3>3. ASSUME NEW q \in Range(readyqueue) PROVE prio[q] < MAX_PRIO
        <4>1. q \in Procs /\ q # current
          BY LifeFacts DEF SoundState, AllInv, CurrentDetached
        <4>2. \A s \in Resources : owner[s] # q
          BY <4>1, LifeFacts DEF CalmInv, OwnerRuns, SoundState, AllInv
        <4>3. prio[q] = PrioOrig(q)
          BY <2>5, <4>1, <4>2, OwnPrio
        <4> QED BY <2>5, <4>1, <4>3 DEF UnderCeiling
      <3> DEFINE s == Append(readyqueue, current)
      <3> DEFINE n == Len(readyqueue)
      <3>4. readyqueue \in Seq(Procs)
        BY <1>1 DEF TypeOK
      <3>5. /\ n \in Nat /\ DOMAIN s = 1 .. n + 1 /\ s[n + 1] = current
            /\ \A j \in 1 .. n : s[j] = readyqueue[j] /\ readyqueue[j] \in Range(readyqueue)
        BY <2>1, <3>4 DEF Range
      <3>6. PICK i \in DOMAIN s : FirstMax(KeysOf(s, prio), i) /\ current' = s[i]
        BY <3>1 DEF Compete, TakeFrom
      <3> HIDE DEF s
      <3>7. KeysOf(s, prio)[n + 1] <= KeysOf(s, prio)[i]
        BY <3>5, <3>6 DEF FirstMax, KeysOf
      <3>8. MAX_PRIO <= prio[s[i]]
        BY <3>2, <3>5, <3>6, <3>7 DEF KeysOf
      <3>9. ASSUME i \in 1 .. n PROVE FALSE
        <4>1. s[i] \in Range(readyqueue)
          BY <3>5, <3>9
        <4>2. prio[s[i]] \in Nat /\ MAX_PRIO \in Nat
          BY <4>1, LifeFacts, NumbersAssumption DEF SoundState, AllInv
        <4> QED BY <3>3, <3>8, <4>1, <4>2
      <3>10. i = n + 1
        BY <3>5, <3>6, <3>9
      <3> QED BY <3>5, <3>6, <3>10
    <2> QED BY <2>4, <2>5 DEF Calm
  <1> QED BY <1>1, <1>2, <1>3 DEF CalmInv, OwnerRuns, AtCeiling, Waiting

LEMMA CalmGranted == ASSUME SoundState, CalmInv, Granted PROVE CalmInv'
  <1>1. /\ current \in Procs /\ current # NULL /\ current' = current /\ status' = status
        /\ sched' = sched
    BY GrantedEffect DEF SoundState, AllInv, configVars
  <1>2. PICK i \in DOMAIN to_acquire[current] :
          LET r == to_acquire[current][i].resource_id
          IN  /\ r \in Resources
              /\ SchedAcquire(r, TRUE)
              /\ \/ owner' = owner /\ owner[r] # NULL
                 \/ owner[r] = NULL /\ owner' = [owner EXCEPT ![r] = current]
    BY GrantedEffect, RequestDue DEF SoundState, AllInv
  <1> DEFINE r == to_acquire[current][i].resource_id
  <1>3. owner \in [Resources -> Procs \cup {NULL}] /\ prio \in [Procs -> Nat]
    BY LifeFacts DEF SoundState, AllInv, TypeOK
  <1>4. ASSUME NEW s \in Resources, owner'[s] # NULL
        PROVE  /\ owner'[s] = current
               /\ owner' # owner \/ owner[s] = current
    BY <1>1, <1>2, <1>3, <1>4 DEF CalmInv, OwnerRuns
  <1>5. ASSUME sched = "pcp" PROVE AtCeiling'
    <2>1. PcpAcquire(r, TRUE)
      BY <1>2, <1>5 DEF SchedAcquire
    <2>2. CASE owner[r] = NULL
      <3>1. prio' = [prio EXCEPT ![current] = MAX_PRIO]
        BY <2>1, <2>2 DEF PcpAcquire, Free
      <3> QED BY <1>1, <1>3, <1>4, <3>1 DEF AtCeiling
    <2>3. CASE owner[r] # NULL
      <3>1. prio' = prio /\ owner' = owner
        BY <2>1, <2>3 DEF PcpAcquire, Free
      <3> QED BY <1>1, <3>1 DEF AtCeiling, CalmInv
    <2> QED BY <2>2, <2>3
  <1> QED BY <1>1, <1>4, <1>5 DEF CalmInv, OwnerRuns, AtCeiling, Waiting

(* A process is granted what is free, never what it already has.           *)
LEMMA FreeIsGranted ==
    ASSUME SoundState, Granted
    PROVE  \E i \in DOMAIN to_acquire[current] :
             LET r == to_acquire[current][i].resource_id
             IN  /\ NextRequest(i) /\ r \in Resources
                 /\ SchedAcquire(r, TRUE)
                 /\ owner[r] = NULL /\ owner' = [owner EXCEPT ![r] = current]
                 /\ wanted' = [wanted EXCEPT ![current] = NULL]
  <1>1. pc = "acquire" /\ current \in Procs
    BY GrantedEffect DEF SoundState, AllInv
  <1>2. PICK i \in DOMAIN to_acquire[current] :
          LET r == to_acquire[current][i].resource_id
          IN  /\ NextRequest(i) /\ r \in Resources
              /\ SchedAcquire(r, TRUE)
              /\ \/ owner' = owner /\ Pid(owner[r]) = Pid(current) /\ owner[r] # NULL
                 \/ owner[r] = NULL /\ owner' = [owner EXCEPT ![r] = current]
              /\ wanted' = [wanted EXCEPT ![current] = NULL]
    BY GrantedEffect, RequestDue DEF SoundState, AllInv
  <1> DEFINE r == to_acquire[current][i].resource_id
  <1>3. owner[r] \in Procs \cup {NULL}
    BY <1>2, LifeFacts DEF SoundState, AllInv, TypeOK
  <1>4. to_acquire[current][i].at = age[current]
    BY <1>2 DEF NextRequest, DueRequest
  <1>5. owner[r] # current
    BY <1>1, <1>2, <1>4, AskerIsNotOwner
  <1>6. owner[r] = NULL /\ owner' = [owner EXCEPT ![r] = current]
    BY <1>1, <1>2, <1>3, <1>5 DEF SoundState, Sound, UniquePids
  <1> QED BY <1>2, <1>6

(* A process is refused what somebody else owns.                           *)
LEMMA RefusedByOther ==
    ASSUME SoundState, Refused
    PROVE  \E r \in Resources : /\ owner[r] \in Procs \ {current}
                                /\ wanted' = [wanted EXCEPT ![current] = r]
                                /\ SchedAcquire(r, FALSE)
                                /\ SingleHold => \A s \in Resources : owner[s] # current
  <1>1. pc = "acquire" /\ current \in Procs
    BY RefusedEffect DEF SoundState, AllInv
  <1>2. PICK i \in DOMAIN to_acquire[current] :
          LET r == to_acquire[current][i].resource_id
          IN  /\ NextRequest(i) /\ r \in Resources /\ owner[r] # NULL
              /\ wanted' = [wanted EXCEPT ![current] = r]
              /\ SchedAcquire(r, FALSE)
    BY RefusedEffect DEF SoundState, AllInv
  <1>3. to_acquire[current][i].at = age[current]
    BY <1>2 DEF NextRequest, DueRequest
  <1> QED BY <1>1, <1>2, <1>3, OwnerFacts, AskerIsNotOwner

LEMMA CalmRelease == ASSUME SoundState, Calm, CalmInv, Release PROVE CalmInv'
  <1>1. /\ current \in Procs /\ current' = current /\ sched' = sched
        /\ cursor \in 1 .. Len(holding[current])
        /\ holding[current] \in Seq(Request) /\ Entry.resource_id \in Resources
        /\ owner' = [owner EXCEPT ![Entry.resource_id] = NULL]
        /\ \/ status' = status
           \/ \E w \in Procs : status' = [status EXCEPT ![w] = "READY"]
    BY ReleaseEffect DEF SoundState, AllInv, configVars
  <1>2. owner \in [Resources -> Procs \cup {NULL}] /\ status \in [Procs -> Status]
    BY LifeFacts DEF SoundState, AllInv, TypeOK
  <1>3. \A p \in Procs : ~Waiting(p)'
    BY <1>1, <1>2 DEF CalmInv, Waiting
  <1>4. OwnerRuns'
    BY <1>1, <1>2 DEF CalmInv, OwnerRuns
  <1>5. ASSUME sched = "pcp", NEW r \in Resources, owner'[r] # NULL PROVE FALSE
    <2>1. r # Entry.resource_id /\ owner[r] = current
      BY <1>1, <1>2, <1>5 DEF CalmInv, OwnerRuns
    <2>2. PICK i \in DOMAIN holding[current] : holding[current][i].resource_id = r
      BY <1>5, <2>1, OwnerFacts, <1>1
    <2>3. cursor \in DOMAIN holding[current] /\ i # cursor
      BY <1>1, <2>1, <2>2 DEF Entry
    <2> QED BY <1>1, <1>5, <2>2, <2>3
        DEF SoundState, SoundInv, HeldOnce, Calm, UnderCeiling
  <1> QED BY <1>1, <1>3, <1>4, <1>5 DEF CalmInv, AtCeiling

LEMMA CalmStep ==
    ASSUME SoundState, Calm, CalmInv, [Next]_vars
    PROVE  CalmInv'
  <1> USE DEF configVars, loopVars, queueVars, processVars
  <1>1. ~Refused
    BY RefusedByOther DEF CalmInv, OwnerRuns
  <1>2. CASE Fork
    <2>1. /\ owner' = owner /\ current' = current /\ sched' = sched
          /\ \E p \in Procs : status' = [status EXCEPT ![p] = "READY"] /\ SchedForked(p)
      BY <1>2, ForkEffect DEF SoundState, AllInv
    <2>2. prio' = prio
      BY <2>1 DEF SchedForked, Calm
    <2> QED BY <2>1, <2>2, LifeFacts
        DEF CalmInv, OwnerRuns, AtCeiling, Waiting, SoundState, AllInv
  <1>3. CASE Retire \/ Dispatch
    <2>1. owner' = owner /\ current' = current /\ sched' = sched /\ prio' = prio
      BY <1>3 DEF Retire, Dispatch
    <2>2. \A p \in Procs : ~Waiting(p)'
      BY <1>3, LifeFacts DEF CalmInv, Waiting, SoundState, AllInv, Retire, Dispatch
    <2> QED BY <2>1, <2>2 DEF CalmInv, OwnerRuns, AtCeiling
  <1>4. CASE \/ Quit \/ Idle \/ Progress \/ KeepHolding \/ ReleaseAborts \/ EndTick
             \/ UNCHANGED vars
    <2>1. UNCHANGED <<owner, current, sched, prio, status>>
      BY <1>4 DEF Quit, Idle, Progress, KeepHolding, ReleaseAborts, EndTick, vars
    <2> QED BY <2>1 DEF CalmInv, OwnerRuns, AtCeiling, Waiting
  <1> QED BY <1>1, <1>2, <1>3, <1>4, CalmSchedule, CalmGranted, CalmRelease DEF Next

CalmHolds == Sound /\ Calm => CalmInv

LEMMA CalmHoldsStep == AllInv /\ SoundHolds /\ CalmHolds /\ [Next]_vars => CalmHolds'
  <1> SUFFICES ASSUME AllInv, SoundHolds, CalmHolds, [Next]_vars, Sound', Calm'
               PROVE  CalmInv'
    BY DEF CalmHolds
  <1>1. Sound /\ Calm
    BY ConfigStays, SameScript DEF Calm
  <1> QED BY <1>1, CalmStep DEF SoundState, SoundHolds, CalmHolds

(* Under a policy that does not preempt, and under PCP while every request *)
(* is made below the ceiling and one at a time, nobody ever waits.         *)
THEOREM NobodyWaits == Spec => []NeverWaits
  <1>1. Init => CalmHolds
    BY CalmInit DEF CalmHolds
  <1>2. CalmHolds => NeverWaits
    BY DEF CalmHolds, Calm, CalmInv, NeverWaits, Waiting
  <1> QED BY <1>1, <1>2, AllInit, AllStep, SoundHoldsInit, SoundHoldsStep, CalmHoldsStep,
             PTL DEF Spec

(***************************************************************************)
(* Nobody is forgotten, and who is stranded waits for somebody else        *)
(***************************************************************************)
(* Holding one resource at a time leaves no time to ask for it again.      *)
LEMMA CeilingIsSound == UnderCeiling /\ UniquePids /\ WellFormed => Sound
  BY DEF UnderCeiling, SingleHold, NoReacquire, Sound

LEMMA NotForgotten == AllInv /\ SoundHolds /\ CalmHolds => NoLostProcess
  <1> SUFFICES ASSUME AllInv, SoundHolds, CalmHolds,
                      sched = "pcp" => UnderCeiling /\ UniquePids /\ WellFormed,
                      NEW p \in Procs
               PROVE  \/ Finished(p) \/ p \in {current, prev} \/ Attached(p)
                      \/ Lifespan(p) = 0
    BY DEF NoLostProcess
  <1>1. CASE sched # "pcp"
    BY <1>1, NobodyForgotten
  <1>2. CASE sched = "pcp"
    <2>1. ~Waiting(p)
      BY <1>2, CeilingIsSound DEF CalmHolds, Calm, CalmInv
    <2> QED BY <2>1 DEF AllInv, LifeInv, NobodyLost
  <1> QED BY <1>1, <1>2

(* Between two ticks every process has finished, has the CPU or is queued. *)
THEOREM NobodyIsForgotten == Spec => []NoLostProcess
  <1>1. Init => CalmHolds
    BY CalmInit DEF CalmHolds
  <1> QED BY <1>1, NotForgotten, AllInit, AllStep, SoundHoldsInit, SoundHoldsStep,
             CalmHoldsStep, PTL DEF Spec

(* The simulation ends only when the queues it looks at are empty.         *)
DoneInv == pc = "done" => current = NULL /\ readyqueue = <<>> /\ forkqueue = <<>>

LEMMA DoneStep == DoneInv /\ [Next]_vars => DoneInv'
  <1> USE DEF configVars, loopVars, queueVars, processVars
  <1> SUFFICES ASSUME DoneInv, [Next]_vars, pc' = "done"
               PROVE  (current = NULL /\ readyqueue = <<>> /\ forkqueue = <<>>)'
    BY DEF DoneInv
  <1>1. Quit \/ UNCHANGED vars
    BY DEF Next, Fork, Schedule, Retire, Idle, Dispatch, Granted, Refused, Progress,
           KeepHolding, Release, ReleaseAborts, EndTick, Tick
  <1> QED BY <1>1 DEF DoneInv, Quit, vars

(* The state the promises about the end of a simulation are made of.       *)
EndState == /\ SoundState /\ NoLostWakeup /\ NoLostProcess /\ DoneInv /\ pc = "done"
            /\ sched = "pcp" => UnderCeiling

(* Who has not finished by then waits for what somebody else has not given *)
(* back.                                                                   *)
LEMMA Stranded ==
    ASSUME EndState, NEW p \in Procs, ~Finished(p)
    PROVE  \E r \in Resources : /\ p \in Range(waitqueue[r]) /\ wanted[p] = r
                                /\ owner[r] \in Procs \ {p} /\ ~Finished(owner[r])
  <1>1. /\ NoLostWakeup /\ NoLostProcess /\ TypeOK /\ WaitersWait /\ OwnersHold
        /\ pc = "done" /\ current = NULL /\ prev = NULL
        /\ readyqueue = <<>> /\ forkqueue = <<>>
        /\ WaitersAsked /\ RefusedIsFirst /\ NULL \notin Procs
    BY LifeFacts DEF EndState, SoundState, AllInv, LifeInv, Inv, FreeInv, DoneInv,
                     PrevForgotten
  <1>2. Range(readyqueue) = {} /\ Range(forkqueue) = {}
    BY <1>1 DEF Range
  <1>3. ASSUME NEW q \in Procs, ~Finished(q)
        PROVE  \E r \in Resources : q \in Range(waitqueue[r])
    <2>1. Lifespan(q) > 0
      BY DEF EndState, SoundState, Sound, WellFormed
    <2>2. Lifespan(q) # 0
      BY <2>1
    <2>3. Attached(q)
      BY <1>1, <1>3, <2>2 DEF NoLostProcess, EndState, SoundState, Sound
    <2> QED BY <1>2, <2>3 DEF Attached
  <1>4. PICK r \in Resources : p \in Range(waitqueue[r])
    BY <1>3
  <1>5. wanted[p] = r /\ waitqueue[r] # <<>>
    <2>1. Range(<<>>) = {}
      BY DEF Range
    <2> QED BY <1>1, <1>4, <2>1 DEF WaitersAsked
  <1>6. owner[r] # NULL
    <2>1. ASSUME NEW q \in Procs, status[q] # "WAIT", ~Finished(q) PROVE FALSE
      BY <1>1, <1>3, <2>1 DEF WaitersWait
    <2> QED BY <1>1, <1>5, <2>1 DEF NoLostWakeup
  <1>7. owner[r] # p
    <2>1. PICK i \in DOMAIN to_acquire[p] : /\ to_acquire[p][i].at = age[p]
                                            /\ to_acquire[p][i].resource_id = r
      BY <1>1, <1>4, <1>5 DEF RefusedIsFirst, Resources
    <2> QED BY <1>1, <1>4, <2>1, AskerIsNotOwner DEF EndState
  <1>8. owner[r] \in Procs /\ ~Finished(owner[r])
    BY <1>1, <1>6 DEF TypeOK, OwnersHold, Finished
  <1> QED BY <1>4, <1>5, <1>7, <1>8

(* What is asked for while something is held has the larger number.        *)
LEMMA OrderedWish ==
    ASSUME SoundState, pc # "release", Ordered, NEW q \in Procs,
           NEW r \in Resources, owner[r] = q, NEW j \in DOMAIN to_acquire[q],
           to_acquire[q][j].at = age[q]
    PROVE  r < to_acquire[q][j].resource_id
  <1>1. TypeOK /\ PendingInv /\ HoldingInv /\ Sound
    BY LifeFacts DEF SoundState, AllInv, SoundInv
  <1>2. PICK i \in DOMAIN holding[q] : holding[q][i].resource_id = r
    BY OwnerFacts, LifeFacts DEF SoundState, AllInv
  <1> DEFINE a == Origin(q, i)
  <1> DEFINE b == to_acquire[q][j]
  <1>3. Lag(q, i) = 0
    BY DEF Lag
  <1>4. /\ a \in Asked(q) /\ b \in Asked(q) /\ a # b /\ Overlap(a, b)
        /\ holding[q][i].at <= age[q]
        /\ b.at = holding[q][i].at => Earlier(q, a, b)
    BY <1>1, <1>2, <1>3, HeldAndDue DEF HoldingInv, PendingInv
  <1>5. a.resource_id = r /\ a.at = holding[q][i].at
    BY <1>2 DEF Origin
  <1>6. a.at \in Nat /\ b.at \in Nat
    <2> HIDE DEF a, b
    <2> QED BY <1>1, <1>4, AskedFacts
  <1>7. \E k, l \in DOMAIN Requests(q) : /\ Requests(q)[k] = a /\ Requests(q)[l] = b
                                         /\ Before(q, k, l)
    <2> HIDE DEF a
    <2>1. CASE a.at = b.at
      <3>1. PICK k, l \in DOMAIN Requests(q) :
              k < l /\ Requests(q)[k] = a /\ Requests(q)[l] = b
        BY <1>4, <1>5, <2>1 DEF Earlier
      <3> QED BY <2>1, <3>1 DEF Before
    <2>2. CASE a.at # b.at
      <3>1. a.at < b.at
        BY <1>4, <1>5, <1>6, <2>2
      <3>2. PICK k \in DOMAIN Requests(q) : Requests(q)[k] = a
        BY <1>4 DEF Asked, Range
      <3>3. PICK l \in DOMAIN Requests(q) : Requests(q)[l] = b
        BY <1>4 DEF Asked, Range
      <3> QED BY <3>1, <3>2, <3>3 DEF Before
    <2> QED BY <2>1, <2>2
  <1>8. PICK k, l \in DOMAIN Requests(q) : /\ Requests(q)[k] = a /\ Requests(q)[l] = b
                                           /\ Before(q, k, l)
    BY <1>7
  <1> HIDE DEF a, b
  <1>9. a.resource_id < b.resource_id
    BY <1>4, <1>8 DEF Ordered
  <1> QED BY <1>5, <1>9 DEF b

(* So nobody is stranded: of all that is waited for, the owner of the      *)
(* resource with the largest number would wait for a larger one.           *)
LEMMA NobodyStranded ==
    ASSUME EndState, Ordered, NEW p \in Procs
    PROVE  Finished(p)
  <1> SUFFICES ASSUME ~Finished(p) PROVE FALSE
    OBVIOUS
  <1>1. /\ RefusedIsFirst /\ NR_RESOURCES \in Nat
        /\ SoundState /\ pc = "done"
    BY NumbersAssumption DEF EndState, SoundState, AllInv, LifeInv
  <1> DEFINE Stuck == {q \in Procs : ~Finished(q)}
  <1> DEFINE Above(q) == NR_RESOURCES - wanted[q]
  <1>2. ASSUME NEW q \in Stuck PROVE Above(q) \in Nat
    <2>1. wanted[q] \in Resources
      BY Stranded
    <2> QED BY <1>1, <2>1 DEF Resources
  <1>3. PICK q \in Stuck : \A s \in Stuck : Above(q) <= Above(s)
    <2> DEFINE T == {Above(q) : q \in Stuck}
    <2>1. T \subseteq Nat
      BY <1>2
    <2>2. T # {}
      OBVIOUS
    <2>3. PICK n \in T : \A m \in T : n <= m
      <3> HIDE DEF T
      <3> QED BY <2>1, <2>2, LeastNumber
    <2> QED BY <2>3
  <1>4. PICK r \in Resources : wanted[q] = r /\ owner[r] \in Stuck
    BY Stranded
  <1> DEFINE s == owner[r]
  <1>5. s \in Procs /\ wanted[s] \in Resources
    BY <1>4, Stranded
  <1>6. PICK j \in DOMAIN to_acquire[s] : /\ to_acquire[s][j].at = age[s]
                                          /\ to_acquire[s][j].resource_id = wanted[s]
    BY <1>1, <1>5, ProcsAssumption DEF RefusedIsFirst
  <1>7. r < wanted[s]
    BY <1>1, <1>5, <1>6, OrderedWish
  <1>8. Above(q) <= Above(s)
    BY <1>3, <1>4
  <1> QED BY <1>1, <1>4, <1>5, <1>7, <1>8 DEF Resources

(* What the two theorems on the end of a simulation rest on.               *)
EndInv == AllInv /\ SoundHolds /\ CalmHolds /\ NoLostWakeup /\ DoneInv

LEMMA EndInit == Init => EndInv
  BY AllInit, SoundHoldsInit, CalmInit
     DEF EndInv, CalmHolds, Init, NoLostWakeup, DoneInv

LEMMA EndStep == EndInv /\ [Next]_vars => EndInv'
  BY AllStep, SoundHoldsStep, CalmHoldsStep, WakeStep, DoneStep DEF EndInv

LEMMA EndReached ==
    EndInv /\ Sound /\ (sched = "pcp" => UnderCeiling) /\ pc = "done" => EndState
  BY NotForgotten DEF EndInv, EndState, SoundHolds, SoundState

(* Only a circular wait strands a process.                                 *)
THEOREM OnlyCyclesStrand == Spec => []StrandedByCycle
  <1>1. EndInv => StrandedByCycle
    BY EndReached, Stranded DEF StrandedByCycle
  <1> QED BY <1>1, EndInit, EndStep, PTL DEF Spec

(* Scripts that ask in the order of the resource ids run to the end.       *)
THEOREM OrderedScriptsFinish == Spec => []OrderedFinish
  <1>1. EndInv => OrderedFinish
    BY EndReached, NobodyStranded DEF OrderedFinish
  <1> QED BY <1>1, EndInit, EndStep, PTL DEF Spec

(***************************************************************************)
(* Priority inheritance                                                    *)
(***************************************************************************)
(* The best of a list is taken: what stays has no larger priority.         *)
LEMMA BestTaken ==
    ASSUME NEW q \in Seq(Procs), IsInjective(q), NEW i \in DOMAIN q,
           FirstMax(KeysOf(q, prio), i), TakeFrom(q, i)
    PROVE  /\ \A p \in Range(readyqueue') : p \in Range(q) /\ prio[p] <= prio[current']
           /\ \A p \in Range(q) : prio[p] <= prio[current']
  <1>1. i \in 1 .. Len(q) /\ current' = q[i] /\ readyqueue' = RemoveAt(q, i)
    BY DEF TakeFrom
  <1>2. Range(readyqueue') = Range(q) \ {q[i]}
    BY <1>1, RemoveAtRange
  <1>3. ASSUME NEW p \in Range(q) PROVE prio[p] <= prio[current']
    <2>1. PICK j \in DOMAIN q : p = q[j]
      BY DEF Range
    <2>2. KeysOf(q, prio)[j] <= KeysOf(q, prio)[i]
      BY <2>1 DEF FirstMax, KeysOf
    <2> QED BY <1>1, <2>1, <2>2 DEF KeysOf
  <1> QED BY <1>2, <1>3

LEMMA BestRuns ==
    ASSUME Inv, \/ ~MayContinue /\ PickNext(HighestPrio)
                \/ MayContinue  /\ Compete,
           NEW p \in Range(readyqueue) \cup Range(readyqueue'), current' # NULL
    PROVE  prio[p] <= prio[current']
  <1>1. /\ readyqueue \in Seq(Procs) /\ IsInjective(readyqueue)
        /\ current \in Procs \cup {NULL} /\ current \notin Range(readyqueue)
    BY LifeFacts DEF TypeOK, ListIntegrity, CurrentDetached
  <1>2. CASE ~MayContinue /\ PickNext(HighestPrio)
    BY <1>1, <1>2, BestTaken DEF PickNext, HighestPrio
  <1>3. CASE MayContinue /\ Compete
    <2> DEFINE q == Append(readyqueue, current)
    <2>1. current \in Procs
      BY <1>1, <1>3 DEF MayContinue
    <2>2. q \in Seq(Procs) /\ IsInjective(q) /\ Range(readyqueue) \subseteq Range(q)
      BY <1>1, <2>1, AppendRange
    <2>3. PICK i \in DOMAIN q : FirstMax(KeysOf(q, prio), i) /\ TakeFrom(q, i)
      BY <1>3 DEF Compete
    <2> HIDE DEF q
    <2> QED BY <2>2, <2>3, BestTaken
  <1> QED BY <1>2, <1>3

Inherits == sched = "pip" /\ SingleHold /\ \A p \in Procs : PrioOrig(p) + 1 < UINT

(* Nobody who is ready is above the process chosen for this tick.          *)
MaxRuns == InTick /\ current # NULL =>
             \A p \in Range(readyqueue) : prio[p] <= prio[current]

(* No waiter is above the owner of the resource or, when it is free, above *)
(* the process woken for it.                                               *)
Serves(p, r) == \/ owner[r] = p
                \/ owner[r] = NULL /\ wanted[p] = r /\ ~Waiting(p) /\ ~Finished(p)
Donated == \A r \in Resources : \A q \in Range(waitqueue[r]) :
             \E p \in Procs : Serves(p, r) /\ prio[q] <= prio[p]
PipInv == MaxRuns /\ Donated

LEMMA PipInit == Init => PipInv
  <1>1. \A r \in Resources : Range(<<>>) = {}
    BY DEF Range
  <1> QED BY <1>1 DEF Init, PipInv, MaxRuns, Donated, InTick

(* Who serves a resource does not wait for another one.                    *)
LEMMA ServesFacts ==
    ASSUME SoundState, Inherits, NEW r \in Resources, NEW p \in Procs, Serves(p, r)
    PROVE  ~Waiting(p) /\ ~Finished(p) /\ p \notin Range(forkqueue)
  <1>1. p \notin Range(forkqueue)
    <2>1. owner[r] = p => holding[p] # <<>>
      BY OwnerFacts, LifeFacts DEF SoundState, AllInv
    <2> QED BY <2>1 DEF SoundState, SoundInv, Unborn, Serves, Resources
  <1>2. ASSUME owner[r] = p PROVE ~Waiting(p) /\ ~Finished(p)
    <2>1. ~Finished(p)
      BY <1>2, LifeFacts DEF SoundState, AllInv, Inv, FreeInv, OwnersHold, Finished
    <2>2. ASSUME Waiting(p) PROVE FALSE
      <3>1. PICK s \in Resources : p \in Range(waitqueue[s])
        BY <2>2 DEF SoundState, AllInv, LifeInv, WaitersQueued, Inherits
      <3>2. wanted[p] = s /\ wanted[p] # NULL
        BY <3>1 DEF SoundState, AllInv, LifeInv, WaitersAsked, Resources
      <3>3. PICK j \in DOMAIN to_acquire[p] : to_acquire[p][j].at = age[p]
        BY <3>2 DEF SoundState, AllInv, LifeInv, RefusedIsFirst
      <3>4. pc = "release" => p # current
        BY <2>2, LifeFacts
           DEF SoundState, SoundInv, AllInv, LifeInv, StatusInv, OneRuns, Waiting, Running
      <3> QED BY <1>2, <3>3, <3>4, AskerIsNotOwner DEF Inherits
    <2> QED BY <2>1, <2>2
  <1> QED BY <1>1, <1>2 DEF Serves

(* So a waiter is never above the process that runs.                       *)
LEMMA RunsAboveWaiters ==
    ASSUME SoundState, Inherits, PipInv, pc = "acquire",
           NEW r \in Resources, NEW q \in Range(waitqueue[r])
    PROVE  prio[q] <= prio[current]
  <1>1. PICK p \in Procs : Serves(p, r) /\ prio[q] <= prio[p]
    BY DEF PipInv, Donated
  <1>2. ~Waiting(p) /\ ~Finished(p) /\ p \notin Range(forkqueue)
    BY <1>1, ServesFacts
  <1>3. prev = NULL /\ current # NULL /\ current \in Procs /\ p # NULL
    BY LifeFacts
       DEF SoundState, AllInv, LifeInv, PrevForgotten, Inv, TypeInv, SomebodyRuns
  <1>4. Lifespan(p) # 0
    <2>1. Lifespan(p) > 0
      BY DEF SoundState, Sound, WellFormed
    <2> QED BY <2>1
  <1>5. p = current \/ Attached(p)
    BY <1>2, <1>3, <1>4 DEF SoundState, AllInv, LifeInv, NobodyLost
  <1>6. p = current \/ p \in Range(readyqueue)
    BY <1>2, <1>5, LifeFacts DEF Attached, WaitersWait, Waiting, SoundState, AllInv
  <1>7. q \in Procs /\ prio[q] \in Nat /\ prio[p] \in Nat /\ prio[current] \in Nat
    BY <1>3, LifeFacts DEF SoundState, AllInv
  <1>8. prio[p] <= prio[current]
    BY <1>3, <1>6, <1>7 DEF PipInv, MaxRuns, InTick
  <1> QED BY <1>1, <1>7, <1>8

LEMMA PipGranted == ASSUME SoundState, Inherits, PipInv, Granted PROVE PipInv'
  <1>1. /\ pc = "acquire" /\ current \in Procs /\ current' = current /\ pc' = pc
        /\ readyqueue' = readyqueue /\ waitqueue' = waitqueue /\ status' = status
    BY GrantedEffect DEF SoundState, AllInv, loopVars
  <1>2. PICK i \in DOMAIN to_acquire[current] :
          LET r == to_acquire[current][i].resource_id
          IN  /\ NextRequest(i) /\ r \in Resources
              /\ SchedAcquire(r, TRUE)
              /\ owner[r] = NULL /\ owner' = [owner EXCEPT ![r] = current]
              /\ wanted' = [wanted EXCEPT ![current] = NULL]
    BY FreeIsGranted
  <1> DEFINE r == to_acquire[current][i].resource_id
  <1>3. owner \in [Resources -> Procs \cup {NULL}] /\ wanted \in [Procs -> Resources \cup {NULL}]
    BY LifeFacts DEF SoundState, AllInv, TypeOK
  <1>4. owner[r] = NULL /\ owner' = [owner EXCEPT ![r] = current]
    BY <1>2
  <1>5. prio' = prio
    BY <1>2 DEF Inherits, SchedAcquire, PipAcquire
  <1>6. MaxRuns'
    BY <1>1, <1>5 DEF PipInv, MaxRuns, InTick
  <1>7. ASSUME NEW s \in Resources, NEW q \in Range(waitqueue[s])
        PROVE  \E p \in Procs : Serves(p, s)' /\ prio[q] <= prio[p]
    <2>1. CASE s = r
      <3>1. owner'[s] = current
        BY <1>2, <1>3, <1>4, <2>1
      <3>2. prio[q] <= prio[current]
        BY <1>1, RunsAboveWaiters
      <3> QED BY <1>1, <3>1, <3>2 DEF Serves
    <2>2. CASE s # r
      <3>1. PICK p \in Procs : Serves(p, s) /\ prio[q] <= prio[p]
        BY DEF PipInv, Donated
      <3>2. owner'[s] = owner[s]
        BY <1>3, <1>4, <2>2
      <3>3. CASE p # current
        <4>1. wanted'[p] = wanted[p]
          BY <1>2, <1>3, <3>3
        <4> QED BY <1>1, <3>1, <3>2, <4>1 DEF Serves, Waiting, Finished
      <3>4. CASE p = current
        <4>1. wanted[p] # s
          BY <1>1, <1>2, <2>2, <3>4, WantedIsDue DEF SoundState, Resources
        <4> QED BY <3>1, <3>2, <4>1 DEF Serves
      <3> QED BY <3>3, <3>4
    <2> QED BY <2>1, <2>2
  <1> QED BY <1>1, <1>5, <1>6, <1>7 DEF PipInv, Donated

LEMMA PipRefused == ASSUME SoundState, Inherits, PipInv, Refused PROVE PipInv'
  <1>1. /\ pc = "acquire" /\ pc' = "fork" /\ current \in Procs /\ owner' = owner
        /\ status' = [status EXCEPT ![current] = "WAIT"]
    BY RefusedEffect DEF SoundState, AllInv
  <1>2. PICK i \in DOMAIN to_acquire[current] :
          LET r == to_acquire[current][i].resource_id
          IN  /\ NextRequest(i) /\ r \in Resources /\ owner[r] # NULL
              /\ SchedAcquire(r, FALSE)
              /\ wanted' = [wanted EXCEPT ![current] = r]
              /\ Range(waitqueue'[r]) = Range(waitqueue[r]) \cup {current}
              /\ \A s \in Resources \ {r} : waitqueue'[s] = waitqueue[s]
    BY RefusedEffect DEF SoundState, AllInv, Inherits
  <1> DEFINE r == to_acquire[current][i].resource_id
  <1>3. /\ wanted \in [Procs -> Resources \cup {NULL}] /\ status \in [Procs -> Status]
        /\ prio \in [Procs -> Nat] /\ \A s \in Resources : Range(waitqueue[s]) \subseteq Procs
    BY LifeFacts DEF SoundState, AllInv
  <1>4. to_acquire[current][i].at = age[current]
    BY <1>2 DEF NextRequest, DueRequest
  <1>5. owner[r] \in Procs /\ owner[r] # current
    BY <1>1, <1>2, <1>4, OwnerFacts, AskerIsNotOwner
  <1>6. prio[current] = PrioOrig(current)
    BY <1>1, <1>2, <1>4, AskerIsNotOwner, OwnPrio DEF Inherits
  <1>7. Unsigned(prio[current] + 1) = prio[current] + 1
    <2>1. prio[current] + 1 < UINT /\ UINT \in Nat
      BY <1>1, <1>6, NumbersAssumption DEF Inherits
    <2> QED BY <1>1, <1>3, <2>1 DEF Unsigned
  <1>8. IF prio[current] > prio[owner[r]]
          THEN prio' = [prio EXCEPT ![owner[r]] = prio[current] + 1] ELSE prio' = prio
    BY <1>2, <1>7 DEF Inherits, SchedAcquire, PipAcquire, Donate, Free
  <1>9. /\ \A p \in Procs \ {owner[r]} : prio'[p] = prio[p]
        /\ prio'[owner[r]] >= prio[owner[r]] /\ prio'[owner[r]] >= prio[current]
        /\ prio'[owner[r]] \in Nat
    BY <1>1, <1>3, <1>5, <1>8
  <1>10. ~Waiting(owner[r])
    BY <1>2, <1>5, ServesFacts DEF Serves
  <1>11. ASSUME NEW s \in Resources, NEW q \in Range(waitqueue'[s])
         PROVE  \E p \in Procs : Serves(p, s)' /\ prio'[q] <= prio'[p]
    <2>1. CASE s = r /\ q = current
      BY <1>1, <1>3, <1>5, <1>9, <2>1 DEF Serves
    <2>2. CASE q \in Range(waitqueue[s])
      <3>1. PICK p \in Procs : Serves(p, s) /\ prio[q] <= prio[p]
        BY <2>2 DEF PipInv, Donated
      <3>2. q # owner[r] /\ q \in Procs
        BY <1>3, <1>10, <2>2, LifeFacts DEF SoundState, AllInv, WaitersWait, Waiting
      <3>3. prio'[q] <= prio'[p]
        <4>1. prio'[q] = prio[q] /\ prio'[p] >= prio[p]
          BY <1>3, <1>9, <3>1, <3>2
        <4>2. prio'[p] \in Nat /\ prio[p] \in Nat /\ prio[q] \in Nat
          BY <1>3, <1>9, <3>1, <3>2
        <4> QED BY <3>1, <4>1, <4>2
      <3>4. Serves(p, s)'
        <4>1. CASE owner[s] = p
          BY <1>1, <4>1 DEF Serves
        <4>2. CASE owner[s] = NULL /\ wanted[p] = s /\ ~Waiting(p) /\ ~Finished(p)
          <5>1. p # current
            BY <1>1, <1>2, <4>2, WantedIsDue DEF SoundState, Resources
          <5> QED BY <1>1, <1>2, <1>3, <4>2, <5>1 DEF Serves, Waiting, Finished
        <4> QED BY <3>1, <4>1, <4>2 DEF Serves
      <3> QED BY <3>3, <3>4
    <2>3. s = r => q \in Range(waitqueue[s]) \/ q = current
      BY <1>2
    <2>4. s # r => q \in Range(waitqueue[s])
      BY <1>2
    <2> QED BY <2>1, <2>2, <2>3, <2>4
  <1> QED BY <1>1, <1>11 DEF PipInv, Donated, MaxRuns, InTick

LEMMA PipReleases == ASSUME SoundState, Inherits, PipInv, Release PROVE PipInv'
  <1> DEFINE r == Entry.resource_id
  <1>1. /\ pc = "release" /\ cursor \in 1 .. Len(holding[current]) /\ pc' = pc
        /\ current \in Procs /\ current' = current /\ wanted' = wanted
        /\ holding[current] \in Seq(Request) /\ r \in Resources
        /\ owner' = [owner EXCEPT ![r] = NULL] /\ owner[r] = current
        /\ SchedRelease(r)
    BY ReleaseEffect DEF SoundState, AllInv, loopVars
  <1>2. \/ UNCHANGED <<status, readyqueue, waitqueue>> /\ waitqueue[r] = <<>>
        \/ \E w \in Range(waitqueue[r]) :
             /\ w \in Procs /\ w # current
             /\ status' = [status EXCEPT ![w] = "READY"]
             /\ Range(waitqueue'[r]) = Range(waitqueue[r]) \ {w}
             /\ \A s \in Resources \ {r} : waitqueue'[s] = waitqueue[s]
             /\ \E k \in DOMAIN waitqueue[r] : w = waitqueue[r][k] /\ Waiter(r, k)
    BY ReleaseEffect DEF SoundState, AllInv
  <1>3. /\ owner \in [Resources -> Procs \cup {NULL}] /\ status \in [Procs -> Status]
        /\ prio \in [Procs -> Nat] /\ \A s \in Resources : Range(waitqueue[s]) \subseteq Procs
        /\ NULL \notin Procs
    BY LifeFacts DEF SoundState, AllInv, TypeOK
  <1>4. prio' = [prio EXCEPT ![current] = PrioOrig(current)]
    BY <1>1 DEF Inherits, SchedRelease, PipRelease, ResetPrio
  <1>5. \A p \in Procs : /\ p # current => prio'[p] = prio[p]
                         /\ status'[p] = status[p] \/ status'[p] = "READY"
    BY <1>2, <1>3, <1>4
  <1>6. ASSUME NEW s \in Resources PROVE Range(waitqueue'[s]) \subseteq Range(waitqueue[s])
    BY <1>2
  <1>7. ASSUME NEW s \in Resources, NEW q \in Range(waitqueue[s])
        PROVE  q \in Procs /\ q # current /\ wanted[q] = s
    BY <1>1, <1>3, <1>7, LifeFacts
       DEF SoundState, AllInv, LifeInv, StatusInv, OneRuns, Running, WaitersWait,
           WaitersAsked, SoundInv
  <1>8. ASSUME NEW s \in Resources, s # r PROVE owner[s] # current
    <2>1. SUFFICES ASSUME owner[s] = current PROVE FALSE
      OBVIOUS
    <2>2. PICK k \in DOMAIN holding[current] : holding[current][k].resource_id = s
      BY <1>1, <1>3, <2>1, OwnerFacts
    <2>3. cursor \in DOMAIN holding[current] /\ k # cursor
      BY <1>1, <1>8, <2>2 DEF Entry
    <2> QED BY <1>1, <2>2, <2>3 DEF SoundState, SoundInv, HeldOnce, Inherits
  <1>9. wanted[current] = NULL
    BY <1>1 DEF SoundState, SoundInv, NothingWanted
  <1> HIDE DEF r
  <1>10. ASSUME NEW s \in Resources, NEW q \in Range(waitqueue'[s])
         PROVE  \E p \in Procs : Serves(p, s)' /\ prio'[q] <= prio'[p]
    <2>1. q \in Range(waitqueue[s]) /\ q \in Procs /\ q # current
      BY <1>6, <1>7
    <2>2. CASE s = r
      <3>1. Range(<<>>) = {}
        BY DEF Range
      <3>2. PICK w \in Range(waitqueue[r]) :
              /\ w \in Procs /\ w # current
              /\ status' = [status EXCEPT ![w] = "READY"]
              /\ \E k \in DOMAIN waitqueue[r] : w = waitqueue[r][k] /\ Waiter(r, k)
        BY <1>2, <2>1, <2>2, <3>1
      <3>3. PICK k \in DOMAIN waitqueue[r] : w = waitqueue[r][k] /\ Waiter(r, k)
        BY <3>2
      <3>4. FirstMax(KeysOf(waitqueue[r], prio), k)
        BY <3>3 DEF Waiter, BestWaiter, Inherits
      <3>5. PICK j \in DOMAIN waitqueue[r] : q = waitqueue[r][j]
        BY <2>1, <2>2 DEF Range
      <3>6. prio[q] <= prio[w]
        <4>1. KeysOf(waitqueue[r], prio)[j] <= KeysOf(waitqueue[r], prio)[k]
          BY <3>4, <3>5 DEF FirstMax, KeysOf
        <4> QED BY <3>3, <3>5, <4>1 DEF KeysOf
      <3>7. owner'[s] = NULL /\ wanted'[w] = s /\ status'[w] = "READY"
        BY <1>1, <1>3, <1>7, <2>2, <3>2
      <3>8. Serves(w, s)'
        BY <3>7 DEF Serves, Waiting, Finished
      <3>9. prio'[q] <= prio'[w]
        BY <1>5, <2>1, <3>2, <3>6
      <3> QED BY <3>2, <3>8, <3>9
    <2>3. CASE s # r
      <3>1. PICK p \in Procs : Serves(p, s) /\ prio[q] <= prio[p]
        BY <2>1 DEF PipInv, Donated
      <3>2. p # current
        BY <1>8, <1>9, <2>3, <3>1 DEF Serves, Resources
      <3>3. owner'[s] = owner[s]
        BY <1>1, <1>3, <2>3
      <3>4. Serves(p, s)'
        BY <1>1, <1>5, <3>1, <3>3 DEF Serves, Waiting, Finished
      <3>5. prio'[q] <= prio'[p]
        BY <1>5, <2>1, <3>1, <3>2
      <3> QED BY <3>4, <3>5
    <2> QED BY <2>2, <2>3
  <1> QED BY <1>1, <1>10 DEF PipInv, Donated, MaxRuns, InTick

LEMMA PipStep == ASSUME SoundState, Inherits, PipInv, [Next]_vars PROVE PipInv'
  <1> USE DEF configVars, loopVars, queueVars, processVars
  <1>1. ASSUME waitqueue' = waitqueue, owner' = owner, wanted' = wanted, prio' = prio,
               \A p \in Procs : wanted[p] # NULL =>
                 \/ status'[p] = status[p]
                 \/ status'[p] \notin {"WAIT", "EXIT"}
        PROVE  Donated'
    <2>1. ASSUME NEW r \in Resources, NEW p \in Procs, Serves(p, r) PROVE Serves(p, r)'
      BY <1>1, <2>1 DEF Serves, Waiting, Finished, Resources
    <2> QED BY <1>1, <2>1 DEF PipInv, Donated
  <1>2. CASE Fork
    <2>1. /\ waitqueue' = waitqueue /\ owner' = owner /\ wanted' = wanted
          /\ pc = "fork" /\ pc' = pc
          /\ \E p \in Procs : status' = [status EXCEPT ![p] = "READY"] /\ SchedForked(p)
      BY <1>2, ForkEffect DEF SoundState, AllInv
    <2>2. prio' = prio
      BY <2>1 DEF SchedForked, Inherits
    <2>3. \A p \in Procs : status'[p] = status[p] \/ status'[p] = "READY"
      BY <2>1, LifeFacts DEF SoundState, AllInv
    <2> QED BY <1>1, <2>1, <2>2, <2>3 DEF PipInv, MaxRuns, InTick
  <1>3. CASE Schedule
    <2>1. /\ waitqueue' = waitqueue /\ owner' = owner /\ wanted' = wanted /\ status' = status
          /\ prio' = prio
          /\ \/ ~MayContinue /\ PickNext(HighestPrio)
             \/ MayContinue  /\ Compete
      BY <1>3 DEF Schedule, SchedSchedule, PipSchedule, PrioSchedule, Inherits
    <2>2. MaxRuns'
      BY <2>1, BestRuns DEF MaxRuns, SoundState, AllInv
    <2> QED BY <1>1, <2>1, <2>2 DEF PipInv
  <1>4. CASE Retire \/ Dispatch
    <2>1. /\ waitqueue' = waitqueue /\ owner' = owner /\ wanted' = wanted /\ prio' = prio
          /\ readyqueue' = readyqueue /\ current' = current /\ pc \in {"retire", "dispatch"}
      BY <1>4 DEF Retire, Dispatch
    <2>2. ASSUME NEW p \in Procs, wanted[p] # NULL
          PROVE  status'[p] = status[p] \/ status'[p] \notin {"WAIT", "EXIT"}
      <3>1. PICK i \in DOMAIN to_acquire[p] : TRUE
        BY <2>2 DEF SoundState, AllInv, LifeInv, RefusedIsFirst
      <3>2. DOMAIN to_acquire[p] # {}
        BY <3>1
      <3>3. to_acquire[p] # <<>>
        BY <3>2
      <3> QED BY <1>4, <3>3, LifeFacts DEF Retire, Dispatch, ExitAsserts, SoundState, AllInv
    <2>3. MaxRuns'
      BY <2>1 DEF PipInv, MaxRuns, InTick
    <2> QED BY <1>1, <2>1, <2>2, <2>3 DEF PipInv
  <1>5. CASE \/ Quit \/ Idle \/ Progress \/ KeepHolding \/ ReleaseAborts \/ EndTick
             \/ UNCHANGED vars
    <2>1. UNCHANGED <<waitqueue, owner, wanted, prio, status, readyqueue, current>>
      BY <1>5 DEF Quit, Idle, Progress, KeepHolding, ReleaseAborts, EndTick, vars
    <2>2. pc' = pc \/ pc' \notin {"retire", "dispatch", "acquire"}
      BY <1>5 DEF Quit, Idle, Progress, KeepHolding, ReleaseAborts, EndTick, vars, Tick
    <2>3. MaxRuns'
      BY <2>1, <2>2 DEF PipInv, MaxRuns, InTick
    <2> QED BY <1>1, <2>1, <2>3 DEF PipInv
  <1> QED BY <1>2, <1>3, <1>4, <1>5, PipGranted, PipRefused, PipReleases DEF Next

PipHolds == Sound /\ Inherits => PipInv

LEMMA PipHoldsStep == AllInv /\ SoundHolds /\ PipHolds /\ [Next]_vars => PipHolds'
  <1> SUFFICES ASSUME AllInv, SoundHolds, PipHolds, [Next]_vars, Sound', Inherits'
               PROVE  PipInv'
    BY DEF PipHolds
  <1>1. Sound /\ Inherits
    BY ConfigStays, SameScript DEF Inherits
  <1> QED BY <1>1, PipStep DEF SoundState, SoundHolds, PipHolds

(* Under PIP no process runs below one that waits.                         *)
THEOREM NoPriorityInversion == Spec => []NoInversion
  <1>1. Init => PipHolds
    BY PipInit DEF PipHolds
  <1>2. AllInv /\ SoundHolds /\ PipHolds => NoInversion
    <2> SUFFICES ASSUME AllInv, SoundHolds, PipHolds, Sound, Inherits, pc = "acquire",
                        NEW r \in Resources, NEW q \in Range(waitqueue[r])
                 PROVE  prio[current] >= prio[q]
      BY DEF NoInversion, Inherits
    <2>1. prio[q] <= prio[current]
      BY RunsAboveWaiters DEF SoundState, SoundHolds, PipHolds
    <2>2. current \in Procs /\ q \in Procs /\ prio \in [Procs -> Nat]
      BY LifeFacts DEF AllInv, Inv, TypeInv, SomebodyRuns
    <2> QED BY <2>1, <2>2
  <1> QED BY <1>1, <1>2, AllInit, AllStep, SoundHoldsInit, SoundHoldsStep, PipHoldsStep,
             PTL DEF Spec

(***************************************************************************)
(* Aging                                                                   *)
(***************************************************************************)
LEMMA ProcsFinite == IsFiniteSet(Procs) /\ Cardinality(Procs) \in Nat
  <1>1. /\ FileOrder \in Seq(Procs) /\ DOMAIN FileOrder = 1 .. Len(FileOrder)
        /\ Len(FileOrder) \in Nat /\ Range(FileOrder) = Procs
    BY FileOrderAssumption
  <1>2. FileOrder \in Surjection(1 .. Len(FileOrder), Procs)
    BY <1>1 DEF Surjection, Range
  <1>3. IsFiniteSet(1 .. Len(FileOrder))
    BY <1>1, FS_Interval
  <1>4. IsFiniteSet(Procs)
    BY <1>2, <1>3, FS_Surjection
  <1> QED BY <1>4, FS_CardinalityType

(* TopPrio is the largest priority of the descriptions.                    *)
LEMMA TopFacts ==
    ASSUME TypeOK, Procs # {}
    PROVE  /\ TopPrio \in Nat
           /\ \A p \in Procs : PrioOrig(p) \in Nat /\ PrioOrig(p) <= TopPrio
  <1> DEFINE Prios == {PrioOrig(p) : p \in Procs}
  <1> DEFINE Below == {UINT - v : v \in Prios}
  <1>1. UINT \in Nat /\ \A p \in Procs : PrioOrig(p) \in 0 .. UINT - 1
    BY NumbersAssumption DEF TypeOK, Description, PrioOrig
  <1>2. Below \subseteq Nat /\ Below # {}
    BY <1>1
  <1>3. PICK n \in Below : \A m \in Below : n <= m
    <2> HIDE DEF Below
    <2> QED BY <1>2, LeastNumber
  <1>4. PICK t \in Prios : n = UINT - t
    OBVIOUS
  <1>5. \A p \in Procs : PrioOrig(p) <= t
    <2> SUFFICES ASSUME NEW p \in Procs PROVE PrioOrig(p) <= t
      OBVIOUS
    <2>1. UINT - t <= UINT - PrioOrig(p)
      BY <1>3, <1>4
    <2> QED BY <1>1, <2>1
  <1>6. TopPrio \in Prios /\ \A p \in Procs : PrioOrig(p) <= TopPrio
    BY <1>5 DEF TopPrio
  <1> QED BY <1>1, <1>6

AtLeast(v) == {p \in Procs : prio[p] >= v}

(* Only who is ready has aged above the largest priority, and of N         *)
(* processes at most N - k have climbed k steps above it: before each step *)
(* the best one is taken out and reset.                                    *)
RaisedReady == \A p \in Procs : prio[p] > TopPrio => p \in Range(readyqueue)
FewRaised ==
    \A v \in Nat : v > TopPrio /\ AtLeast(v) # {} =>
      Cardinality(AtLeast(v)) + v <= TopPrio + Cardinality(Procs)
AgedInv == sched = "pa" /\ Procs # {} => RaisedReady /\ FewRaised

LEMMA AtLeastFinite ==
    \A v : IsFiniteSet(AtLeast(v)) /\ Cardinality(AtLeast(v)) \in Nat
  <1> SUFFICES ASSUME NEW v PROVE IsFiniteSet(AtLeast(v)) /\ Cardinality(AtLeast(v)) \in Nat
    OBVIOUS
  <1>1. AtLeast(v) \in SUBSET Procs
    BY DEF AtLeast
  <1>2. IsFiniteSet(AtLeast(v))
    BY <1>1, ProcsFinite, FS_Subset
  <1> QED BY <1>2, FS_CardinalityType

LEMMA AgedInit == Init => AgedInv
  <1> SUFFICES ASSUME Init, Procs # {} PROVE RaisedReady /\ FewRaised
    BY DEF AgedInv
  <1>1. TypeOK
    BY TypeInit DEF TypeInv
  <1>2. \A p \in Procs : prio[p] \in Nat /\ prio[p] <= TopPrio
    BY <1>1, TopFacts DEF Init
  <1>3. TopPrio \in Nat
    BY <1>1, TopFacts
  <1> QED BY <1>2, <1>3 DEF RaisedReady, FewRaised, AtLeast

LEMMA UnsignedIsLess == ASSUME NEW n \in Nat PROVE Unsigned(n) <= n
  <1>1. UINT \in Nat \ {0}
    BY NumbersAssumption
  <1>2. CASE n < UINT
    BY <1>1, <1>2 DEF Unsigned
  <1>3. CASE n >= UINT
    <2>1. n % UINT < UINT
      BY <1>1
    <2> QED BY <1>1, <1>3, <2>1, UnsignedIsNat DEF Unsigned
  <1> QED BY <1>1, <1>2, <1>3

(* Who runs goes back to its own priority; the others climb by one.        *)
LEMMA AgedSchedule ==
    ASSUME Inv, sched = "pa", Procs # {}, RaisedReady, FewRaised, Schedule
    PROVE  (RaisedReady /\ FewRaised)'
  <1>1. /\ TypeOK /\ prio \in [Procs -> Nat] /\ script' = script
        /\ Range(readyqueue) \subseteq Procs
        /\ current' \in Procs \cup {NULL} /\ current' \notin Range(readyqueue')
        /\ Range(readyqueue) \subseteq Range(readyqueue') \cup {current'}
    BY LifeFacts, ScheduleEffect DEF configVars
  <1>2. /\ TopPrio' = TopPrio /\ TopPrio \in Nat
        /\ \A p \in Procs : PrioOrig(p) \in Nat /\ PrioOrig(p) <= TopPrio
    BY <1>1, TopFacts DEF TopPrio, PrioOrig
  <1>3. PaSchedule
    BY DEF Schedule, SchedSchedule
  <1>4. CASE current' = NULL
    <2>1. prio' = prio
      BY <1>3, <1>4 DEF PaSchedule
    <2>2. Range(readyqueue) \subseteq Range(readyqueue') \/ NULL \in Range(readyqueue)
      BY <1>1, <1>4
    <2>3. Range(readyqueue) \subseteq Range(readyqueue')
      BY <1>1, <2>2
    <2>4. \A v : AtLeast(v)' = AtLeast(v)
      BY <2>1 DEF AtLeast
    <2> QED BY <1>2, <2>1, <2>3, <2>4 DEF RaisedReady, FewRaised
  <1>5. CASE current' # NULL
    <2>1. current' \in Procs
      BY <1>1, <1>5
    <2>2. prio' = [p \in Procs |-> CASE p = current'            -> PrioOrig(p)
                                     [] p \in Range(readyqueue') -> Aged(p)
                                     [] OTHER                    -> prio[p]]
      BY <1>3, <1>5 DEF PaSchedule
    <2>3. prio'[current'] = PrioOrig(current')
      BY <1>1, <2>1, <2>2
    <2>4. ASSUME NEW p \in Procs, p # current'
          PROVE  /\ prio'[p] \in Nat /\ prio'[p] <= prio[p] + 1
                 /\ p \notin Range(readyqueue') => prio'[p] = prio[p]
      <3>1. prio'[p] = IF p \in Range(readyqueue') THEN Aged(p) ELSE prio[p]
        BY <2>2, <2>4
      <3>2. prio[p] \in Nat /\ prio[p] + 1 \in Nat
        BY <1>1
      <3>3. Aged(p) \in Nat /\ Aged(p) <= prio[p] + 1
        BY <3>2, UnsignedIsNat, UnsignedIsLess DEF Aged
      <3> QED BY <3>1, <3>2, <3>3
    <2>5. RaisedReady'
      <3> SUFFICES ASSUME NEW p \in Procs, prio'[p] > TopPrio, p \notin Range(readyqueue')
                   PROVE  FALSE
        BY <1>2 DEF RaisedReady
      <3>1. p # current'
        BY <1>2, <2>3
      <3>2. p \in Range(readyqueue)
        BY <2>4, <3>1 DEF RaisedReady
      <3> QED BY <1>1, <3>1, <3>2
    <2>6. ASSUME NEW v \in Nat, v > TopPrio, AtLeast(v)' # {}
          PROVE  Cardinality(AtLeast(v)') + v <= TopPrio + Cardinality(Procs)
      <3>1. current' \notin AtLeast(v)'
        BY <1>2, <2>3, <2>6 DEF AtLeast
      <3>2. /\ Cardinality(AtLeast(v)) \in Nat /\ Cardinality(Procs) \in Nat
            /\ IsFiniteSet(Procs)
        BY AtLeastFinite, ProcsFinite
      <3>3. CASE v = TopPrio + 1
        <4>1. AtLeast(v)' \in SUBSET (Procs \ {current'})
          BY <3>1 DEF AtLeast
        <4>2. /\ IsFiniteSet(Procs \ {current'})
              /\ Cardinality(Procs \ {current'}) = Cardinality(Procs) - 1
          BY <2>1, <3>2, FS_RemoveElement
        <4>3. /\ Cardinality(AtLeast(v)') <= Cardinality(Procs) - 1
              /\ IsFiniteSet(AtLeast(v)')
          BY <4>1, <4>2, FS_Subset
        <4>4. Cardinality(AtLeast(v)') \in Nat
          BY <4>3, FS_CardinalityType
        <4> QED BY <1>2, <3>2, <3>3, <4>3, <4>4
      <3>4. CASE v # TopPrio + 1
        <4> DEFINE u == v - 1
        <4>1. u \in Nat /\ u > TopPrio
          BY <1>2, <2>6, <3>4
        <4>2. AtLeast(v)' \subseteq AtLeast(u) \ {current'}
          <5> SUFFICES ASSUME NEW p \in AtLeast(v)' PROVE p \in AtLeast(u) \ {current'}
            OBVIOUS
          <5>1. p \in Procs /\ prio'[p] >= v /\ p # current'
            BY <3>1 DEF AtLeast
          <5>2. prio'[p] \in Nat /\ prio'[p] <= prio[p] + 1 /\ prio[p] \in Nat
            BY <1>1, <2>4, <5>1
          <5>3. prio[p] >= u
            BY <5>1, <5>2
          <5> QED BY <5>1, <5>3 DEF AtLeast
        <4>3. PICK p \in AtLeast(u) : TRUE
          BY <2>6, <4>2
        <4>4. p \in Range(readyqueue) /\ prio[p] >= u /\ p \in Procs
          BY <1>1, <1>2, <4>1, <4>3 DEF RaisedReady, AtLeast
        <4>5. prio[p] <= prio[current']
          BY <1>3, <1>5, <4>4, BestRuns DEF PaSchedule
        <4>6. current' \in AtLeast(u)
          BY <1>1, <2>1, <4>1, <4>4, <4>5 DEF AtLeast
        <4>7. /\ IsFiniteSet(AtLeast(u)) /\ Cardinality(AtLeast(u)) \in Nat
              /\ Cardinality(AtLeast(u)) + u <= TopPrio + Cardinality(Procs)
          BY <4>1, <4>3, AtLeastFinite DEF FewRaised
        <4>8. /\ IsFiniteSet(AtLeast(u) \ {current'})
              /\ Cardinality(AtLeast(u) \ {current'}) = Cardinality(AtLeast(u)) - 1
          BY <4>6, <4>7, FS_RemoveElement
        <4>9. /\ Cardinality(AtLeast(v)') <= Cardinality(AtLeast(u)) - 1
              /\ IsFiniteSet(AtLeast(v)')
          BY <4>2, <4>8, FS_Subset
        <4>10. Cardinality(AtLeast(v)') \in Nat
          BY <4>9, FS_CardinalityType
        <4> QED BY <1>2, <3>2, <4>7, <4>9, <4>10
      <3> QED BY <3>3, <3>4
    <2> QED BY <1>2, <2>5, <2>6 DEF FewRaised
  <1> QED BY <1>4, <1>5

LEMMA AgedStep == AllInv /\ AgedInv /\ [Next]_vars => AgedInv'
  <1> SUFFICES ASSUME AllInv, AgedInv, [Next]_vars, sched' = "pa", Procs # {}
               PROVE  (RaisedReady /\ FewRaised)'
    BY DEF AgedInv
  <1> USE DEF configVars, loopVars, queueVars, processVars
  <1>1. sched = "pa" /\ script' = script /\ RaisedReady /\ FewRaised
    BY ConfigStays DEF AgedInv
  <1>2. TopPrio' = TopPrio
    BY <1>1 DEF TopPrio, PrioOrig
  <1>3. CASE ~Schedule
    <2>1. /\ Refused => prio' = prio /\ readyqueue' = readyqueue
          /\ Granted => prio' = prio /\ readyqueue' = readyqueue
      BY <1>1 DEF Refused, Granted, SchedAcquire, PaAcquire, PrioAcquire
    <2>2. Fork => prio' = prio /\ Range(readyqueue) \subseteq Range(readyqueue')
      BY <1>1, ForkEffect DEF SchedForked, AllInv
    <2>3. Release => prio' = prio /\ Range(readyqueue) \subseteq Range(readyqueue')
      BY <1>1, ReleaseEffect DEF AllInv, SchedRelease, PaRelease
    <2>4. prio' = prio /\ Range(readyqueue) \subseteq Range(readyqueue')
      BY <1>3, <2>1, <2>2, <2>3
         DEF Next, Retire, Quit, Idle, Dispatch, Progress, KeepHolding, ReleaseAborts,
             EndTick, vars
    <2>5. \A v : AtLeast(v)' = AtLeast(v)
      BY <2>4 DEF AtLeast
    <2> QED BY <1>1, <1>2, <2>4, <2>5 DEF RaisedReady, FewRaised
  <1> QED BY <1>1, <1>3, AgedSchedule DEF AllInv

(* Aging keeps every priority below the largest one described plus the     *)
(* number of the processes: nobody is passed over for ever.                *)
THEOREM AgingIsBounded == Spec => []AgingBound
  <1>1. AllInv /\ AgedInv => AgingBound
    <2> SUFFICES ASSUME AllInv, AgedInv, sched = "pa", NEW p \in Procs
                 PROVE  prio[p] < TopPrio + Cardinality(Procs)
      BY DEF AgingBound
    <2>1. TopPrio \in Nat /\ prio[p] \in Nat /\ Cardinality(Procs) \in Nat
      BY LifeFacts, TopFacts, ProcsFinite DEF AllInv
    <2> DEFINE v == TopPrio + Cardinality(Procs)
    <2>2. SUFFICES ASSUME prio[p] >= v PROVE FALSE
      BY <2>1
    <2>3. Cardinality(Procs) # 0
      BY ProcsFinite, FS_EmptySet
    <2>4. v \in Nat /\ v > TopPrio
      BY <2>1, <2>3
    <2>5. p \in AtLeast(v)
      BY <2>2 DEF AtLeast
    <2> HIDE DEF v
    <2>6. Cardinality(AtLeast(v)) + v <= TopPrio + Cardinality(Procs)
      BY <2>4, <2>5 DEF AgedInv, FewRaised
    <2>7. Cardinality(AtLeast(v)) \in Nat /\ Cardinality(AtLeast(v)) # 0
      BY <2>5, AtLeastFinite, FS_EmptySet
    <2> QED BY <2>1, <2>6, <2>7 DEF v
  <1> QED BY <1>1, AllInit, AllStep, AgedInit, AgedStep, PTL DEF Spec

(***************************************************************************)
(* The simulator implements ProcessLife                                    *)
(***************************************************************************)
LifeState == SoundState /\ CalmHolds /\ (sched = "pcp" => UnderCeiling)

LEMMA Moved ==
    ASSUME NEW p \in Procs, NEW from, NEW to, PlaceOf(p) = from, PlaceOf(p)' = to,
           \A q \in Procs \ {p} : PlaceOf(q)' = PlaceOf(q)
    PROVE  Life!Move(p, from, to)
  BY DEF Life!Move

LEMMA Stayed ==
    ASSUME \A q \in Procs : PlaceOf(q)' = PlaceOf(q)
    PROVE  [p \in Procs |-> PlaceOf(p)]' = [p \in Procs |-> PlaceOf(p)]
  OBVIOUS

(* The place of a process whose status and birth do not change.            *)
LEMMA SamePlace ==
    ASSUME NEW q, status'[q] = status[q],
           q \in Range(forkqueue') <=> q \in Range(forkqueue)
    PROVE  PlaceOf(q)' = PlaceOf(q)
  BY DEF PlaceOf

LEMMA SameLeft ==
    ASSUME script' = script, age' = age
    PROVE  [p \in Procs |-> Lifespan(p) - age[p]]' = [p \in Procs |-> Lifespan(p) - age[p]]
  BY SameLife

LEMMA PlaceFacts ==
    ASSUME status \in [Procs -> Status], NEW p \in Procs
    PROVE  /\ Running(p) => PlaceOf(p) = "running"
           /\ Waiting(p) => PlaceOf(p) = "blocked"
           /\ Finished(p) => PlaceOf(p) = "gone"
           /\ status[p] = "READY" =>
                PlaceOf(p) = IF p \in Range(forkqueue) THEN "unborn" ELSE "ready"
           /\ PlaceOf(p) = "running" => Running(p)
           /\ PlaceOf(p) = "blocked" => Waiting(p)
  BY DEF PlaceOf, Running, Waiting, Finished, Status

LEMMA RefineInit == Init => Life!Init
  <1> SUFFICES ASSUME Init PROVE Life!Init
    OBVIOUS
  <1>1. /\ status = [p \in Procs |-> "READY"] /\ age = [p \in Procs |-> 0]
        /\ wanted = [p \in Procs |-> NULL] /\ owner = [r \in Resources |-> NULL]
        /\ Range(forkqueue) = Procs
    BY FileOrderAssumption DEF Init
  <1>2. \A p \in Procs : Lifespan(p) \in Nat
    BY InvInit, LifeFacts
  <1>3. [p \in Procs |-> PlaceOf(p)] = [p \in Procs |-> "unborn"]
    BY <1>1, PlaceFacts DEF Status
  <1>4. [p \in Procs |-> Lifespan(p) - age[p]] \in [Procs -> Nat]
    BY <1>1, <1>2
  <1> QED BY <1>1, <1>3, <1>4 DEF Life!Init

LEMMA RefineFork == ASSUME LifeState, Fork PROVE Life!Next
  <1>1. PICK p \in Procs :
          /\ p \in Range(forkqueue) /\ Range(forkqueue') = Range(forkqueue) \ {p}
          /\ status' = [status EXCEPT ![p] = "READY"]
    BY ForkEffect DEF LifeState, SoundState, AllInv
  <1>2. /\ pc = "fork" /\ script' = script /\ age' = age /\ wanted' = wanted
        /\ owner' = owner
    BY DEF Fork, configVars, loopVars
  <1>3. status[p] = "READY" /\ status \in [Procs -> Status]
    BY <1>1, <1>2, LifeFacts
       DEF LifeState, SoundState, AllInv, LifeInv, StatusInv, QueuedAreReady
  <1>4. status'[p] = "READY" /\ p \notin Range(forkqueue')
    BY <1>1, <1>3
  <1>5. PlaceOf(p) = "unborn" /\ PlaceOf(p)' = "ready"
    BY <1>1, <1>3, <1>4 DEF PlaceOf
  <1>6. \A q \in Procs \ {p} : PlaceOf(q)' = PlaceOf(q)
    BY <1>1, <1>3, SamePlace
  <1>7. Life!Move(p, "unborn", "ready")
    BY <1>5, <1>6, Moved
  <1>8. Life!Fork(p)
    BY <1>2, <1>7, SameLeft DEF Life!Fork
  <1> QED BY <1>8 DEF Life!Next

LEMMA RefineRetire == ASSUME LifeState, Retire PROVE Life!Next \/ UNCHANGED Life!vars
  <1>1. /\ pc = "retire" /\ script' = script /\ age' = age /\ wanted' = wanted
        /\ owner' = owner /\ forkqueue' = forkqueue
    BY DEF Retire, configVars, queueVars
  <1>2. /\ AllInv /\ Sound /\ SoundInv /\ status \in [Procs -> Status]
        /\ prev \in Procs \cup {NULL} /\ NULL \notin Procs
    BY LifeFacts DEF LifeState, SoundState, AllInv
  <1>3. CASE status' = status
    <2>1. \A q \in Procs : PlaceOf(q)' = PlaceOf(q)
      BY <1>1, <1>3, SamePlace
    <2> QED BY <1>1, <2>1, Stayed, SameLeft DEF Life!vars
  <1>4. CASE prev # NULL /\ status' # status
    <2>0. PICK c \in Procs : c = prev
      BY <1>2, <1>4
    <2>1. Running(prev) \/ Waiting(prev)
      BY <1>1, <1>2, <1>4 DEF AllInv, LifeInv, StatusInv, OneRuns
    <2>2. CASE Completed(prev)
      <3>1. ExitAsserts(prev)
        BY <1>1, <1>2, <1>4, <2>2, ExitIsClean
      <3>2. status' = [status EXCEPT ![prev] = "EXIT"]
        BY <1>4, <2>2, <3>1 DEF Retire
      <3>3. Running(prev)
        <4>1. age[prev] = Lifespan(prev) /\ Lifespan(prev) \in Nat /\ Lifespan(prev) > 0
          BY <1>2, <1>4, <2>2, LifeFacts DEF Completed, AllInv, Sound, WellFormed
        <4>2. ~Waiting(prev)
          BY <1>2, <1>4, <4>1 DEF AllInv, LifeInv, TimeLeft, HasTime
        <4> QED BY <2>1, <4>2
      <3>4. PlaceOf(c) = "running" /\ PlaceOf(c)' = "gone"
        BY <1>2, <2>0, <3>2, <3>3 DEF PlaceOf, Running
      <3>5. \A q \in Procs \ {c} : PlaceOf(q)' = PlaceOf(q)
        BY <1>1, <1>2, <2>0, <3>2, SamePlace
      <3>6. Life!Move(c, "running", "gone")
        BY <3>4, <3>5, Moved
      <3>7. \A r \in Resources : owner[r] # prev
        <4>1. DOMAIN holding[prev] = {}
          BY <3>1 DEF ExitAsserts
        <4> QED BY <1>2, <1>4, <4>1 DEF SoundInv, OwnersAgree, Holds
      <3>8. Lifespan(prev) - age[prev] = 0
        BY <1>2, <1>4, <2>2, LifeFacts DEF Completed, AllInv
      <3>9. Life!Exit(c)
        BY <1>1, <2>0, <3>6, <3>7, <3>8, SameLeft DEF Life!Exit
      <3> QED BY <3>9 DEF Life!Next
    <2>3. CASE ~Completed(prev)
      <3>1. status' = [status EXCEPT ![prev] = IF @ = "RUNNING" THEN "READY" ELSE @]
        BY <1>4, <2>3 DEF Retire
      <3>2. status[prev] = "RUNNING"
        BY <1>2, <1>4, <3>1
      <3>3. prev \notin Range(forkqueue)
        BY <1>1, <1>2, <3>2 DEF AllInv, LifeInv, StatusInv, QueuedAreReady
      <3>4. PlaceOf(c) = "running" /\ PlaceOf(c)' = "ready"
        BY <1>1, <1>2, <2>0, <3>1, <3>2, <3>3 DEF PlaceOf
      <3>5. \A q \in Procs \ {c} : PlaceOf(q)' = PlaceOf(q)
        BY <1>1, <1>2, <2>0, <3>1, SamePlace
      <3>6. Life!Move(c, "running", "ready")
        BY <3>4, <3>5, Moved
      <3>7. Life!Preempt(c)
        BY <1>1, <3>6, SameLeft DEF Life!Preempt
      <3> QED BY <3>7 DEF Life!Next
    <2> QED BY <2>2, <2>3
  <1> QED BY <1>3, <1>4 DEF Retire

LEMMA RefineDispatch == ASSUME LifeState, Dispatch PROVE Life!Next
  <1>1. /\ pc = "dispatch" /\ script' = script /\ age' = age /\ wanted' = wanted
        /\ owner' = owner /\ forkqueue' = forkqueue
        /\ status' = [status EXCEPT ![current] = "RUNNING"]
    BY DEF Dispatch, configVars, queueVars
  <1>2. /\ current \in Procs /\ status \in [Procs -> Status] /\ ~Attached(current)
    BY LifeFacts DEF Dispatch, LifeState, SoundState, AllInv, CurrentDetached
  <1>3. status[current] = "READY" /\ \A q \in Procs : ~Running(q)
    BY <1>1, <1>2, LifeFacts DEF LifeState, SoundState, AllInv, LifeInv, StatusInv, OneRuns
  <1>4. PlaceOf(current) = "ready" /\ status'[current] = "RUNNING"
    BY <1>1, <1>2, <1>3, PlaceFacts DEF Attached
  <1>5. current' = current
    BY DEF Dispatch
  <1> DEFINE p == current
  <1>6. PICK c \in Procs : c = current
    BY <1>2
  <1>7. PlaceOf(c) = "ready" /\ PlaceOf(c)' = "running"
    BY <1>1, <1>2, <1>4, <1>6 DEF PlaceOf
  <1>8. \A q \in Procs \ {c} : PlaceOf(q)' = PlaceOf(q)
    BY <1>1, <1>2, <1>6, SamePlace
  <1>9. Life!Move(c, "ready", "running")
    BY <1>7, <1>8, Moved
  <1>10. \A q \in Procs : PlaceOf(q) # "running"
    BY <1>2, <1>3, PlaceFacts
  <1>11. Life!Run(c)
    BY <1>1, <1>9, <1>10, SameLeft DEF Life!Run
  <1> QED BY <1>11 DEF Life!Next

LEMMA RefineGranted == ASSUME LifeState, Granted PROVE Life!Next
  <1>1. /\ pc = "acquire" /\ current \in Procs /\ status' = status
        /\ forkqueue' = forkqueue /\ script' = script /\ age' = age
    BY GrantedEffect DEF LifeState, SoundState, AllInv, configVars
  <1>2. PICK r \in Resources : /\ owner[r] = NULL /\ owner' = [owner EXCEPT ![r] = current]
                               /\ wanted' = [wanted EXCEPT ![current] = NULL]
    BY FreeIsGranted DEF LifeState
  <1>3. Running(current) /\ status \in [Procs -> Status]
    BY <1>1, LifeFacts DEF LifeState, SoundState, AllInv, LifeInv, StatusInv, OneRuns
  <1>4. PICK c \in Procs : c = current
    BY <1>1
  <1>5. PlaceOf(c) = "running" /\ \A q \in Procs : PlaceOf(q)' = PlaceOf(q)
    BY <1>1, <1>3, <1>4, PlaceFacts, SamePlace
  <1>6. Life!Take(c, r)
    BY <1>1, <1>2, <1>4, <1>5, Stayed, SameLeft DEF Life!Take
  <1> QED BY <1>6 DEF Life!Next

LEMMA RefineRefused == ASSUME LifeState, Refused PROVE Life!Next
  <1>1. /\ pc = "acquire" /\ current \in Procs /\ forkqueue' = forkqueue
        /\ status' = [status EXCEPT ![current] = "WAIT"]
        /\ script' = script /\ age' = age /\ owner' = owner
    BY RefusedEffect DEF LifeState, SoundState, AllInv, configVars
  <1>2. PICK r \in Resources : /\ owner[r] \in Procs \ {current}
                               /\ wanted' = [wanted EXCEPT ![current] = r]
    BY RefusedByOther DEF LifeState
  <1>3. Running(current) /\ status \in [Procs -> Status] /\ NULL \notin Procs
    BY <1>1, LifeFacts DEF LifeState, SoundState, AllInv, LifeInv, StatusInv, OneRuns
  <1>4. PICK c \in Procs : c = current
    BY <1>1
  <1>5. PlaceOf(c) = "running" /\ PlaceOf(c)' = "blocked"
    BY <1>1, <1>3, <1>4 DEF PlaceOf, Running
  <1>6. \A q \in Procs \ {c} : PlaceOf(q)' = PlaceOf(q)
    BY <1>1, <1>3, <1>4, SamePlace
  <1>7. Life!Move(c, "running", "blocked")
    BY <1>5, <1>6, Moved
  <1>8. Life!Block(c, r)
    BY <1>1, <1>2, <1>3, <1>4, <1>7, SameLeft DEF Life!Block
  <1> QED BY <1>8 DEF Life!Next

LEMMA RefineProgress == ASSUME LifeState, Progress PROVE Life!Next
  <1>1. /\ pc = "acquire" /\ status' = status /\ forkqueue' = forkqueue
        /\ script' = script /\ wanted' = wanted /\ owner' = owner
        /\ age' = [age EXCEPT ![current] = @ + 1]
    BY DEF Progress, configVars, queueVars
  <1>2. /\ current \in Procs /\ age \in [Procs -> Nat] /\ status \in [Procs -> Status]
        /\ \A p \in Procs : Lifespan(p) \in Nat
    BY <1>1, LifeFacts DEF LifeState, SoundState, AllInv, Inv, TypeInv, SomebodyRuns
  <1>3. Running(current) /\ HasTime(current)
    BY <1>1, <1>2, LifeFacts
       DEF LifeState, SoundState, AllInv, LifeInv, StatusInv, OneRuns, TimeLeft, InTick
  <1>4. age[current] < Lifespan(current)
    BY <1>2, <1>3 DEF HasTime, LifeState, SoundState, Sound, WellFormed
  <1>5. PICK c \in Procs : c = current
    BY <1>2
  <1>6. PlaceOf(c) = "running" /\ \A q \in Procs : PlaceOf(q)' = PlaceOf(q)
    BY <1>1, <1>2, <1>3, <1>5, PlaceFacts, SamePlace
  <1> DEFINE Left == [p \in Procs |-> Lifespan(p) - age[p]]
  <1>7. Left' = [Left EXCEPT ![c] = @ - 1] /\ Left[c] > 0
    <2>1. \A p : Lifespan(p)' = Lifespan(p)
      BY <1>1 DEF Lifespan
    <2>2. \A p \in Procs : Lifespan(p) - age'[p]
                             = IF p = c THEN Lifespan(p) - age[p] - 1
                                        ELSE Lifespan(p) - age[p]
      BY <1>1, <1>2, <1>5
    <2>3. Left' = [p \in Procs |-> Lifespan(p) - age'[p]]
      BY <2>1
    <2>4. [Left EXCEPT ![c] = @ - 1]
            = [p \in Procs |-> IF p = c THEN Left[p] - 1 ELSE Left[p]]
      <3> HIDE DEF Left
      <3>1. DOMAIN Left = Procs
        BY DEF Left
      <3> QED BY <3>1
    <2>5. \A p \in Procs : Left[p] = Lifespan(p) - age[p]
      OBVIOUS
    <2>6. Left' = [Left EXCEPT ![c] = @ - 1]
      BY <2>2, <2>3, <2>4, <2>5
    <2>7. Left[c] > 0
      BY <1>2, <1>4, <1>5, <2>5
    <2> QED BY <2>6, <2>7
  <1>8. Life!Work(c)
    BY <1>1, <1>6, <1>7, Stayed DEF Life!Work
  <1> QED BY <1>8 DEF Life!Next

(* Who is blocked on a resource is who is on its queue.                    *)
LEMMA BlockedAreQueued ==
    ASSUME LifeState, NEW r \in Resources
    PROVE  Life!BlockedOn(r) = Range(waitqueue[r])
  <1>1. \A q \in Range(waitqueue[r]) : q \in Procs /\ Waiting(q) /\ wanted[q] = r
    BY LifeFacts DEF LifeState, SoundState, AllInv, LifeInv, WaitersWait, WaitersAsked,
                     Waiting
  <1>2. ASSUME NEW q \in Procs, Waiting(q), wanted[q] = r PROVE q \in Range(waitqueue[r])
    <2>1. sched # "pcp"
      BY <1>2 DEF LifeState, SoundState, CalmHolds, Calm, CalmInv
    <2> QED BY <1>2, <2>1 DEF LifeState, SoundState, AllInv, LifeInv, WaitersQueued,
                              WaitersAsked
  <1>3. Life!BlockedOn(r) = {q \in Procs : Waiting(q) /\ wanted[q] = r}
    BY LifeFacts, PlaceFacts DEF Life!BlockedOn, LifeState, SoundState, AllInv
  <1> QED BY <1>1, <1>2, <1>3

LEMMA RefineRelease == ASSUME LifeState, Release PROVE Life!Next
  <1> DEFINE r == Entry.resource_id
  <1>1. /\ pc = "release" /\ current \in Procs /\ forkqueue' = forkqueue
        /\ script' = script /\ age' = age /\ wanted' = wanted
        /\ r \in Resources /\ owner[r] = current
        /\ owner' = [owner EXCEPT ![r] = NULL]
        /\ \/ UNCHANGED <<status, readyqueue, waitqueue>> /\ waitqueue[r] = <<>>
           \/ \E w \in Range(waitqueue[r]) :
                w \in Procs /\ status' = [status EXCEPT ![w] = "READY"]
    BY ReleaseEffect DEF LifeState, SoundState, AllInv, configVars
  <1>2. PICK s \in Resources : s = r
    BY <1>1
  <1> HIDE DEF r
  <1>3. Running(current) /\ status \in [Procs -> Status]
    BY <1>1, LifeFacts DEF LifeState, SoundState, AllInv, LifeInv, StatusInv, OneRuns
  <1>4. PICK c \in Procs : c = current
    BY <1>1
  <1>5. PlaceOf(c) = "running"
    BY <1>3, <1>4, PlaceFacts
  <1>6. \/ Life!BlockedOn(s) = {} /\ UNCHANGED [p \in Procs |-> PlaceOf(p)]
        \/ \E q \in Life!BlockedOn(s) : Life!Move(q, "blocked", "ready")
    <2>1. CASE status' = status /\ waitqueue[s] = <<>>
      <3>1. Range(waitqueue[s]) = {}
        BY <2>1 DEF Range
      <3>2. \A q \in Procs : PlaceOf(q)' = PlaceOf(q)
        BY <1>1, <2>1, SamePlace
      <3> QED BY <3>1, <3>2, BlockedAreQueued, Stayed
    <2>2. CASE ~(status' = status /\ waitqueue[s] = <<>>)
      <3>1. PICK w \in Range(waitqueue[s]) :
              w \in Procs /\ status' = [status EXCEPT ![w] = "READY"]
        BY <1>1, <1>2, <2>2
      <3>2. status[w] = "WAIT" /\ w \notin Range(forkqueue)
        BY <3>1, LifeFacts DEF LifeState, SoundState, AllInv, WaitersWait, ListIntegrity
      <3>3. PlaceOf(w) = "blocked" /\ PlaceOf(w)' = "ready"
        BY <1>1, <1>3, <3>1, <3>2 DEF PlaceOf
      <3>4. \A q \in Procs \ {w} : PlaceOf(q)' = PlaceOf(q)
        BY <1>1, <1>3, <3>1, SamePlace
      <3>5. Life!Move(w, "blocked", "ready")
        BY <3>1, <3>3, <3>4, Moved
      <3> QED BY <3>5, BlockedAreQueued
    <2> QED BY <2>1, <2>2
  <1>7. Life!Give(c, s)
    BY <1>1, <1>2, <1>4, <1>5, <1>6, SameLeft DEF Life!Give
  <1> QED BY <1>7 DEF Life!Next

LEMMA RefineStep == LifeState /\ [Next]_vars => [Life!Next]_(Life!vars)
  <1> SUFFICES ASSUME LifeState, [Next]_vars PROVE Life!Next \/ UNCHANGED Life!vars
    OBVIOUS
  <1> USE DEF configVars, loopVars, queueVars, processVars
  <1>1. CASE \/ Schedule \/ Quit \/ Idle \/ KeepHolding \/ EndTick \/ UNCHANGED vars
    <2>1. UNCHANGED <<script, age, status, forkqueue, wanted, owner>>
      BY <1>1 DEF Schedule, Quit, Idle, KeepHolding, EndTick, vars
    <2>2. \A q \in Procs : PlaceOf(q)' = PlaceOf(q)
      BY <2>1, SamePlace
    <2> QED BY <2>1, <2>2, Stayed, SameLeft DEF Life!vars
  <1>2. ~ReleaseAborts
    BY ReleaseIsClean DEF ReleaseAborts, LifeState, SoundState
  <1> QED BY <1>1, <1>2, RefineFork, RefineRetire, RefineDispatch, RefineGranted,
             RefineRefused, RefineProgress, RefineRelease DEF Next

(* A simulation of a sound script; under PCP of one that never waits.      *)
SoundSpec == Spec /\ Sound /\ (sched = "pcp" => UnderCeiling)

(* Every simulation of a sound script is a life of its processes: one CPU, *)
(* exclusive resources, and a release wakes one of those it should.        *)
THEOREM SimulatorImplementsLife == SoundSpec => ImplementsProcessLife
  <1> DEFINE Here == Sound /\ (sched = "pcp" => UnderCeiling)
  <1> DEFINE Reached == AllInv /\ SoundHolds /\ CalmHolds /\ Here
  <1>1. Init /\ Here => Reached
    BY AllInit, SoundHoldsInit, CalmInit DEF CalmHolds
  <1>2. Reached /\ [Next]_vars => Reached'
    <2>1. Here /\ [Next]_vars => Here'
      BY ConfigStays, SameScript
    <2> QED BY <2>1, AllStep, SoundHoldsStep, CalmHoldsStep
  <1>3. Reached => LifeState
    BY DEF LifeState, SoundState, SoundHolds
  <1> HIDE DEF Here, Reached
  <1>4. SoundSpec => Spec /\ Here
    BY DEF SoundSpec, Here
  <1> QED BY <1>1, <1>2, <1>3, <1>4, RefineInit, RefineStep, PTL
          DEF Spec, ImplementsProcessLife, Life!Spec
================================================================================
