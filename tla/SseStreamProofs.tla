--------------------------- MODULE SseStreamProofs ---------------------------
(***************************************************************************)
(* Proofs about SseStream, for any requests, capacity, limit and deltas.   *)
(* The permits are counted with finite sets (Counted), the variables of    *)
(* one request are tied together by Linked, and what its client received   *)
(* to where its generator is by Heard.                                     *)
(***************************************************************************)
EXTENDS SseStream, FiniteSetTheorems, WellFoundedInduction, TLAPS

\* A generator that may still run.
Live == {"created"} \cup Sending \cup Awaiting

\* Every permit is somewhere.
Sum ==
  permits + Cardinality(With(request, "granted"))
          + Cardinality(With(lease, "held")) = Capacity

Counted ==
  /\ IsFiniteSet(With(request, "waiting"))
  /\ IsFiniteSet(With(request, "granted"))
  /\ IsFiniteSet(With(lease, "held"))
  /\ permits \in Nat
  /\ Sum

LinkedOne(s) ==
  /\ request[s] \in {"new", "waiting", "granted", "refused"}
       => lease[s] = "none" /\ gen[s] = "none"
  /\ request[s] = "streaming" => lease[s] = "held" /\ gen[s] \in Live
  /\ request[s] = "background"
       => lease[s] \in {"held", "released"} /\ gen[s] \in {"abandoned", "ended"}
  /\ request[s] = "answered"
       => lease[s] = "released" /\ gen[s] \in {"abandoned", "ended"}
  /\ upstream[s] => gen[s] \in {"delta", "complete", "next", "unwinding", "close",
                                "abandoned"}
  /\ gen[s] = "delta" => emitted[s] <= MaxChars

HeardOne(s) ==
  /\ gen[s] \in {"none", "created", "enter", "start"}
       => wire[s] = [start |-> 0, chars |-> 0, complete |-> 0, error |-> 0]
  /\ gen[s] \notin {"none", "created", "enter", "start"} /\ client[s]
       => wire[s].start = 1 \/ gen[s] \in {"abandoned", "ended"}
  /\ gen[s] \in {"next", "delta", "complete"} => wire[s].complete = 0
  /\ wire[s].error > 0 => gen[s] = "ended"
  /\ wire[s].chars <= MaxChars
  /\ wire[s].chars + wire[s].complete > 0 => wire[s].start = 1
  /\ wire[s].complete <= 1
  /\ wire[s].error <= 1

Types ==
  /\ arrivals \in Seq(Streams)
  /\ request \in [Streams -> Requests]
  /\ lease \in [Streams -> {"none", "held", "released"}]
  /\ gen \in [Streams -> Gens]
  /\ after \in [Streams -> {"return", "handler"}]
  /\ upstream \in [Streams -> BOOLEAN]
  /\ emitted \in [Streams -> Nat]
  /\ client \in [Streams -> BOOLEAN]
  /\ wire \in [Streams -> Wire]

Linked == \A s \in Streams : LinkedOne(s)

Heard == \A s \in Streams : HeardOne(s)

\* The inductive invariant.
IInv == Types /\ Counted /\ Linked /\ Heard

-----------------------------------------------------------------------------
(* Permits.                                                                *)

\* What is given away leaves the free permits, and only waiters receive it.
LEMMA Granting ==
  ASSUME NEW free \in Nat, NEW n \in Nat, NEW status \in [Streams -> Requests],
         IsFiniteSet(With(status, "waiting")),
         IsFiniteSet(With(status, "granted")),
         GrantUpTo(n, free, status)
  PROVE  /\ permits' \in Nat /\ arrivals' = arrivals
         /\ request' \in [Streams -> Requests]
         /\ IsFiniteSet(With(request', "waiting"))
         /\ IsFiniteSet(With(request', "granted"))
         /\ permits' + Cardinality(With(request', "granted"))
              = free + Cardinality(With(status, "granted"))
         /\ \A t \in Streams :
              \/ request'[t] = status[t]
              \/ status[t] = "waiting" /\ request'[t] = "granted"
<1>1. PICK given \in SUBSET With(status, "waiting") :
        /\ Cardinality(given) <= free
        /\ permits' = free - Cardinality(given)
        /\ request' = [s \in Streams |-> IF s \in given THEN "granted" ELSE status[s]]
        /\ UNCHANGED arrivals
  BY DEF GrantUpTo, With
<1>2. IsFiniteSet(given) /\ Cardinality(given) \in Nat
  BY FS_Subset, FS_CardinalityType
<1>3. With(request', "granted") = With(status, "granted") \cup given
  BY <1>1 DEF With
<1>4. With(request', "waiting") \subseteq With(status, "waiting")
  BY <1>1 DEF With
<1>5. With(status, "granted") \cap given = {}
  BY <1>1 DEF With
<1>6. /\ IsFiniteSet(With(request', "granted"))
      /\ Cardinality(With(request', "granted"))
           = Cardinality(With(status, "granted")) + Cardinality(given)
  <2>1. IsFiniteSet(With(status, "granted"))
    OBVIOUS
  <2>2. /\ IsFiniteSet(With(status, "granted") \cup given)
        /\ Cardinality(With(status, "granted") \cup given)
             = Cardinality(With(status, "granted")) + Cardinality(given)
                 - Cardinality(With(status, "granted") \cap given)
    BY <1>2, <2>1, FS_Union
  <2>3. Cardinality(With(status, "granted") \cap given) = 0
    BY <1>5, FS_EmptySet
  <2>4. Cardinality(With(status, "granted")) \in Nat
    BY <2>1, FS_CardinalityType
  <2>5. Cardinality(With(status, "granted") \cup given)
          = Cardinality(With(status, "granted")) + Cardinality(given)
    BY <1>2, <2>2, <2>3, <2>4
  <2> QED BY <1>3, <2>2, <2>5
<1>7. IsFiniteSet(With(request', "waiting"))
  BY <1>4, FS_Subset
<1>8. request' \in [Streams -> Requests]
  BY <1>1 DEF Requests
<1>9. \A t \in Streams : \/ request'[t] = status[t]
                         \/ status[t] = "waiting" /\ request'[t] = "granted"
  BY <1>1 DEF With
<1>10. Cardinality(With(status, "granted")) \in Nat
  BY FS_CardinalityType
<1> QED BY <1>1, <1>2, <1>6, <1>7, <1>8, <1>9, <1>10

\* A step that moves no permit and lets no request wait keeps the count.
LEMMA CountFrame ==
  ASSUME Counted, permits' = permits, lease' = lease,
         With(request, "granted")' = With(request, "granted"),
         With(request, "waiting")' = With(request, "waiting")
  PROVE  Counted'
<1>1. With(lease, "held")' = With(lease, "held")
  BY DEF With
<1> QED BY <1>1 DEF Counted, Sum

\* A request that neither waits nor has been granted a permit moves on to
\* another status of that kind.
LEMMA SameWaiters ==
  ASSUME Types, NEW s \in Streams, NEW r \in Requests \ {"waiting", "granted"},
         request[s] \notin {"waiting", "granted"}
  PROVE  /\ Becomes(s, r) \in [Streams -> Requests]
         /\ With(Becomes(s, r), "granted") = With(request, "granted")
         /\ With(Becomes(s, r), "waiting") = With(request, "waiting")
BY DEF Types, Becomes, With, Requests

\* StreamLease.release keeps the count, whether or not the lease is held.
LEMMA Releasing ==
  ASSUME Types, Counted, NEW s \in Streams,
         NEW r \in Requests \ {"waiting", "granted"},
         request[s] \notin {"waiting", "granted"}, Release(s, Becomes(s, r))
  PROVE  /\ Counted' /\ arrivals' = arrivals
         /\ request' \in [Streams -> Requests]
         /\ request'[s] = r
         /\ lease' = [lease EXCEPT ![s] = IF @ = "held" THEN "released" ELSE @]
         /\ \A t \in Streams \ {s} :
              \/ request'[t] = request[t]
              \/ request[t] = "waiting" /\ request'[t] = "granted"
<1> DEFINE status == Becomes(s, r)
<1>1. /\ status \in [Streams -> Requests]
      /\ With(status, "granted") = With(request, "granted")
      /\ With(status, "waiting") = With(request, "waiting")
      /\ status[s] = r
      /\ \A t \in Streams \ {s} : status[t] = request[t]
  BY SameWaiters DEF Becomes, Types
<1>2. Release(s, status)
  OBVIOUS
<1> HIDE DEF status
<1>3. CASE lease[s] = "held"
  <2>1. lease' = [lease EXCEPT ![s] = "released"] /\ GrantUpTo(1, permits + 1, status)
    BY <1>2, <1>3 DEF Release
  <2>2. /\ permits' \in Nat /\ arrivals' = arrivals
        /\ request' \in [Streams -> Requests]
        /\ IsFiniteSet(With(request', "waiting"))
        /\ IsFiniteSet(With(request', "granted"))
        /\ permits' + Cardinality(With(request', "granted"))
             = permits + 1 + Cardinality(With(status, "granted"))
        /\ \A t \in Streams :
             \/ request'[t] = status[t]
             \/ status[t] = "waiting" /\ request'[t] = "granted"
    <3>1. permits + 1 \in Nat /\ 1 \in Nat
      BY DEF Counted
    <3>2. IsFiniteSet(With(status, "waiting")) /\ IsFiniteSet(With(status, "granted"))
      BY <1>1 DEF Counted
    <3> QED BY <1>1, <2>1, <3>1, <3>2, Granting
  <2>3. s \in With(lease, "held")
    BY <1>3 DEF With
  <2>4. With(lease', "held") = With(lease, "held") \ {s}
    BY <2>1 DEF With, Types
  <2>5. /\ IsFiniteSet(With(lease', "held"))
        /\ Cardinality(With(lease', "held")) = Cardinality(With(lease, "held")) - 1
    BY <2>3, <2>4, FS_RemoveElement DEF Counted
  <2>6. /\ Cardinality(With(lease, "held")) \in Nat
        /\ Cardinality(With(request, "granted")) \in Nat
        /\ Cardinality(With(request', "granted")) \in Nat
    BY <2>2, FS_CardinalityType DEF Counted
  <2>7. /\ With(request, "granted")' = With(request', "granted")
        /\ With(request, "waiting")' = With(request', "waiting")
        /\ With(lease, "held")' = With(lease', "held")
    BY DEF With
  <2>8. permits' + Cardinality(With(request', "granted"))
          + Cardinality(With(lease', "held")) = Capacity
    <3>1. permits \in Nat /\ Sum
      BY DEF Counted
    <3> QED BY <1>1, <2>2, <2>5, <2>6, <3>1 DEF Sum
  <2>9. Counted'
    BY <2>2, <2>5, <2>7, <2>8 DEF Counted, Sum
  <2> QED BY <1>1, <1>3, <2>1, <2>2, <2>9 DEF Types, Requests
<1>4. CASE lease[s] # "held"
  <2>1. request' = status /\ UNCHANGED <<lease, permits, arrivals>>
    BY <1>2, <1>4 DEF Release, semaphore
  <2>2. Counted'
    BY <1>1, <2>1, CountFrame DEF With
  <2> QED BY <1>1, <1>4, <2>1, <2>2 DEF Types
<1> QED BY <1>3, <1>4

-----------------------------------------------------------------------------
(* One request.                                                            *)

\* What another request may notice of a step: a permit that it waited for.
Unmoved(t) ==
  /\ lease'[t] = lease[t] /\ gen'[t] = gen[t] /\ upstream'[t] = upstream[t]
  /\ emitted'[t] = emitted[t] /\ client'[t] = client[t] /\ wire'[t] = wire[t]
  /\ \/ request'[t] = request[t]
     \/ request[t] = "waiting" /\ request'[t] = "granted"

\* A step of one request keeps what is known of the others.
LEMMA OneMoves ==
  ASSUME IInv, NEW s \in Streams, \A t \in Streams \ {s} : Unmoved(t),
         LinkedOne(s)', HeardOne(s)'
  PROVE  Linked' /\ Heard'
<1>1. ASSUME NEW t \in Streams \ {s} PROVE LinkedOne(t)' /\ HeardOne(t)'
  BY <1>1 DEF IInv, Linked, Heard, LinkedOne, HeardOne, Unmoved
<1> QED BY <1>1 DEF Linked, Heard

LEMMA InitInvariant == Init => IInv
<1> SUFFICES ASSUME Init PROVE IInv
  OBVIOUS
<1>1. Types
  BY DEF Init, Types, Requests, Gens, Wire
<1>2. /\ With(request, "waiting") = {} /\ With(request, "granted") = {}
      /\ With(lease, "held") = {}
  BY DEF Init, With
<1>3. Counted
  <2>1. IsFiniteSet({}) /\ Cardinality({}) = 0
    BY FS_EmptySet
  <2>2. permits = Capacity /\ Capacity \in Nat
    BY SettingsAssumption DEF Init
  <2>3. permits + Cardinality(With(request, "granted"))
          + Cardinality(With(lease, "held")) = Capacity
    BY <1>2, <2>1, <2>2
  <2> QED BY <1>2, <2>1, <2>2, <2>3 DEF Counted, Sum
<1>4. Linked /\ Heard
  BY SettingsAssumption DEF Init, Linked, Heard, LinkedOne, HeardOne
<1> QED BY <1>1, <1>3, <1>4 DEF IInv

\* A request that waits for its turn to run, or ends without running.
LEMMA ArriveStep ==
  ASSUME IInv, NEW s \in Streams, Arrive(s)
  PROVE  IInv'
<1> USE DEF IInv, Arrive
<1>1. CASE permits > 0 /\ \A t \in Streams : request[t] \notin {"waiting", "granted"}
  <2>1. /\ permits' = permits - 1 /\ request' = Becomes(s, "streaming")
        /\ lease' = [lease EXCEPT ![s] = "held"]
        /\ gen' = [gen EXCEPT ![s] = "created"]
        /\ UNCHANGED <<arrivals, after, upstream, emitted, client, wire>>
    BY <1>1 DEF Admitted
  <2>2. Types'
    BY <2>1 DEF Types, Becomes, Requests, Gens, Live
  <2>3. s \notin With(lease, "held")
    BY DEF With, Linked, LinkedOne
  <2>4. With(lease, "held")' = With(lease, "held") \cup {s}
    BY <2>1 DEF With, Types
  <2>5. /\ IsFiniteSet(With(lease, "held"))'
        /\ Cardinality(With(lease, "held"))' = Cardinality(With(lease, "held")) + 1
    BY <2>3, <2>4, FS_AddElement DEF Counted
  <2>6. /\ With(request, "waiting")' = With(request, "waiting")
        /\ With(request, "granted")' = With(request, "granted")
    BY <2>1 DEF With, Becomes, Types
  <2>7. /\ Cardinality(With(lease, "held")) \in Nat
        /\ Cardinality(With(request, "granted")) \in Nat
    BY FS_CardinalityType DEF Counted
  <2>8. Counted'
    BY <1>1, <2>1, <2>5, <2>6, <2>7, SettingsAssumption DEF Counted, Sum
  <2>9. LinkedOne(s)' /\ HeardOne(s)'
    BY <2>1 DEF Types, Linked, Heard, LinkedOne, HeardOne, Becomes, Live
  <2>10. \A t \in Streams \ {s} : Unmoved(t)
    BY <2>1 DEF Types, Unmoved, Becomes
  <2> QED BY <2>2, <2>8, <2>9, <2>10, OneMoves
<1>2. CASE ~(permits > 0 /\ \A t \in Streams : request[t] \notin {"waiting", "granted"})
  <2>1. /\ arrivals' = Append(arrivals, s) /\ request' = Becomes(s, "waiting")
        /\ UNCHANGED <<permits, lease, gen, after, upstream, emitted, client, wire>>
    BY <1>2
  <2>2. Types'
    BY <2>1 DEF Types, Becomes, Requests
  <2>3. With(request, "waiting")' = With(request, "waiting") \cup {s}
    BY <2>1 DEF With, Becomes, Types
  <2>4. With(request, "granted")' = With(request, "granted")
    BY <2>1 DEF With, Becomes, Types
  <2>5. IsFiniteSet(With(request, "waiting"))'
    BY <2>3, FS_AddElement DEF Counted
  <2>6. With(lease, "held")' = With(lease, "held")
    BY <2>1 DEF With
  <2>7. Counted'
    BY <2>1, <2>4, <2>5, <2>6 DEF Counted, Sum
  <2>8. LinkedOne(s)' /\ HeardOne(s)'
    BY <2>1 DEF Types, Linked, Heard, LinkedOne, HeardOne, Becomes
  <2>9. \A t \in Streams \ {s} : Unmoved(t)
    BY <2>1 DEF Types, Unmoved, Becomes
  <2> QED BY <2>2, <2>7, <2>8, <2>9, OneMoves
<1> QED BY <1>1, <1>2

\* The permit that was granted becomes the lease.
LEMMA AdmitStep ==
  ASSUME IInv, NEW s \in Streams, Admit(s)
  PROVE  IInv'
<1> USE DEF IInv
<1> DEFINE status == Becomes(s, "streaming")
<1>1. /\ request[s] = "granted" /\ GrantUpTo(permits, permits, status)
      /\ lease' = [lease EXCEPT ![s] = "held"]
      /\ gen' = [gen EXCEPT ![s] = "created"]
      /\ UNCHANGED <<after, upstream, emitted, client, wire>>
  BY DEF Admit, LeaveQueue, Admitted
<1>2. /\ status \in [Streams -> Requests] /\ status[s] = "streaming"
      /\ \A t \in Streams \ {s} : status[t] = request[t]
      /\ With(status, "waiting") = With(request, "waiting")
      /\ With(status, "granted") = With(request, "granted") \ {s}
      /\ s \in With(request, "granted")
  BY <1>1 DEF Becomes, Types, Requests, With
<1> HIDE DEF status
<1>3. /\ IsFiniteSet(With(status, "waiting")) /\ IsFiniteSet(With(status, "granted"))
      /\ Cardinality(With(status, "granted")) = Cardinality(With(request, "granted")) - 1
  BY <1>2, FS_RemoveElement DEF Counted
<1>4. /\ permits' \in Nat /\ arrivals' = arrivals
      /\ request' \in [Streams -> Requests]
      /\ IsFiniteSet(With(request', "waiting"))
      /\ IsFiniteSet(With(request', "granted"))
      /\ permits' + Cardinality(With(request', "granted"))
           = permits + Cardinality(With(status, "granted"))
      /\ \A t \in Streams : \/ request'[t] = status[t]
                            \/ status[t] = "waiting" /\ request'[t] = "granted"
  <2>1. permits \in Nat
    BY DEF Counted
  <2> QED BY <1>1, <1>2, <1>3, <2>1, Granting
<1>5. Types'
  BY <1>1, <1>4 DEF Types, Gens
<1>6. s \notin With(lease, "held") /\ With(lease', "held") = With(lease, "held") \cup {s}
  BY <1>1 DEF With, Linked, LinkedOne, Types
<1>7. /\ IsFiniteSet(With(lease', "held"))
      /\ Cardinality(With(lease', "held")) = Cardinality(With(lease, "held")) + 1
  BY <1>6, FS_AddElement DEF Counted
<1>8. /\ Cardinality(With(lease, "held")) \in Nat
      /\ Cardinality(With(request, "granted")) \in Nat
      /\ Cardinality(With(request', "granted")) \in Nat
  BY <1>4, FS_CardinalityType DEF Counted
<1>9. permits' + Cardinality(With(request', "granted"))
        + Cardinality(With(lease', "held")) = Capacity
  <2>1. permits \in Nat /\ Sum
    BY DEF Counted
  <2> QED BY <1>3, <1>4, <1>7, <1>8, <2>1 DEF Sum
<1>10. /\ With(request, "granted")' = With(request', "granted")
       /\ With(request, "waiting")' = With(request', "waiting")
       /\ With(lease, "held")' = With(lease', "held")
  BY DEF With
<1>11. Counted'
  BY <1>4, <1>7, <1>9, <1>10 DEF Counted, Sum
<1>12. LinkedOne(s)' /\ HeardOne(s)'
  BY <1>1, <1>2, <1>4 DEF Types, Linked, Heard, LinkedOne, HeardOne, Live
<1>13. \A t \in Streams \ {s} : Unmoved(t)
  BY <1>1, <1>2, <1>4 DEF Types, Unmoved
<1> QED BY <1>5, <1>11, <1>12, <1>13, OneMoves

\* A permit that arrived together with the timeout goes to the next waiter.
LEMMA AdmissionTimeoutStep ==
  ASSUME IInv, NEW s \in Streams, AdmissionTimeout(s)
  PROVE  IInv'
<1> USE DEF IInv
<1> DEFINE status == Becomes(s, "refused")
           free == IF request[s] = "granted" THEN permits + 1 ELSE permits
<1>1. /\ request[s] \in {"waiting", "granted"} /\ GrantUpTo(free, free, status)
      /\ UNCHANGED <<lease, gen, after, upstream, emitted, client, wire>>
  BY DEF AdmissionTimeout, LeaveQueue
<1>2. /\ status \in [Streams -> Requests] /\ status[s] = "refused"
      /\ \A t \in Streams \ {s} : status[t] = request[t]
      /\ With(status, "waiting") = With(request, "waiting") \ {s}
      /\ With(status, "granted") = With(request, "granted") \ {s}
      /\ request[s] = "granted" => s \in With(request, "granted")
      /\ request[s] # "granted" => With(status, "granted") = With(request, "granted")
  BY <1>1 DEF Becomes, Types, Requests, With
<1>3. free \in Nat
  BY DEF Counted
<1>4. /\ IsFiniteSet(With(status, "waiting")) /\ IsFiniteSet(With(status, "granted"))
      /\ Cardinality(With(request, "granted")) \in Nat
      /\ Cardinality(With(lease, "held")) \in Nat
  BY <1>2, FS_RemoveElement, FS_CardinalityType DEF Counted
<1>5. free + Cardinality(With(status, "granted"))
        = permits + Cardinality(With(request, "granted"))
  <2>1. permits \in Nat
    BY DEF Counted
  <2>2. CASE request[s] = "granted"
    <3>1. Cardinality(With(status, "granted")) = Cardinality(With(request, "granted")) - 1
      BY <1>2, <2>2, FS_RemoveElement DEF Counted
    <3> QED BY <1>4, <2>1, <2>2, <3>1
  <2>3. CASE request[s] # "granted"
    BY <1>2, <2>1, <2>3
  <2> QED BY <2>2, <2>3
<1> HIDE DEF status, free
<1>6. /\ permits' \in Nat /\ arrivals' = arrivals
      /\ request' \in [Streams -> Requests]
      /\ IsFiniteSet(With(request', "waiting"))
      /\ IsFiniteSet(With(request', "granted"))
      /\ permits' + Cardinality(With(request', "granted"))
           = free + Cardinality(With(status, "granted"))
      /\ \A t \in Streams : \/ request'[t] = status[t]
                            \/ status[t] = "waiting" /\ request'[t] = "granted"
  BY <1>1, <1>2, <1>3, <1>4, Granting
<1>7. Types'
  BY <1>1, <1>6 DEF Types
<1>8. /\ With(request, "granted")' = With(request', "granted")
      /\ With(request, "waiting")' = With(request', "waiting")
      /\ With(lease, "held")' = With(lease, "held")
  BY <1>1 DEF With
<1>9. permits' + Cardinality(With(request', "granted"))
        + Cardinality(With(lease, "held")) = Capacity
  BY <1>5, <1>6 DEF Counted, Sum
<1>10. Counted'
  BY <1>6, <1>8, <1>9 DEF Counted, Sum
<1>11. LinkedOne(s)' /\ HeardOne(s)'
  BY <1>1, <1>2, <1>6 DEF Types, Linked, Heard, LinkedOne, HeardOne
<1>12. \A t \in Streams \ {s} : Unmoved(t)
  BY <1>1, <1>2, <1>6 DEF Types, Unmoved
<1> QED BY <1>7, <1>10, <1>11, <1>12, OneMoves

-----------------------------------------------------------------------------
(* The generator.                                                          *)

\* A step that moves no permit and changes no request's status.
LEMMA GeneratorMoves ==
  ASSUME IInv, NEW s \in Streams, Types',
         UNCHANGED <<permits, arrivals, request, lease>>,
         \A t \in Streams \ {s} :
           /\ gen'[t] = gen[t] /\ upstream'[t] = upstream[t]
           /\ emitted'[t] = emitted[t] /\ client'[t] = client[t]
           /\ wire'[t] = wire[t],
         LinkedOne(s)', HeardOne(s)'
  PROVE  IInv'
<1>1. Counted'
  BY CountFrame DEF IInv, With
<1>2. \A t \in Streams \ {s} : Unmoved(t)
  BY DEF Unmoved
<1> QED BY <1>1, <1>2, OneMoves DEF IInv

\* A step that leaves the generator and the permits alone but moves the
\* request on to the background task.
LEMMA AbandonStep ==
  ASSUME IInv, NEW s \in Streams, Abandon(s), gen[s] \in Sending,
         UNCHANGED <<after, emitted, client, wire>>
  PROVE  IInv'
<1> USE DEF IInv
<1>1. request[s] = "streaming" /\ lease[s] = "held"
  BY DEF Linked, LinkedOne, Sending, Types, Requests
<1>2. /\ gen' = [gen EXCEPT ![s] = "abandoned"] /\ request' = Becomes(s, "background")
      /\ UNCHANGED <<permits, arrivals, lease, upstream>>
  BY DEF Abandon, semaphore
<1>3. Types'
  BY <1>2 DEF Types, Becomes, Requests, Gens
<1>4. Counted'
  BY <1>1, <1>2, SameWaiters, CountFrame DEF Requests, With
<1>5. LinkedOne(s)'
  BY <1>1, <1>2 DEF Types, LinkedOne, Becomes
<1>6. HeardOne(s)'
  BY <1>2 DEF Types, Heard, HeardOne, Sending
<1>7. \A t \in Streams \ {s} : Unmoved(t)
  BY <1>2 DEF Types, Unmoved, Becomes
<1> QED BY <1>3, <1>4, <1>5, <1>6, <1>7, OneMoves

\* The generator ends, whatever it sent last, and its lease is released.
LEMMA EndStep ==
  ASSUME IInv, NEW s \in Streams, End(s), gen[s] \in Live, Types', HeardOne(s)',
         ~upstream'[s],
         UNCHANGED <<after, emitted, client>>,
         \A t \in Streams \ {s} : upstream'[t] = upstream[t] /\ wire'[t] = wire[t]
  PROVE  IInv'
<1> USE DEF IInv
<1>1. request[s] = "streaming" /\ lease[s] = "held"
  BY DEF Linked, LinkedOne, Live, Sending, Awaiting, Types, Requests
<1>2. gen' = [gen EXCEPT ![s] = "ended"] /\ Release(s, Becomes(s, "background"))
  BY DEF End
<1>3. /\ Counted' /\ arrivals' = arrivals
      /\ request'[s] = "background"
      /\ lease' = [lease EXCEPT ![s] = IF @ = "held" THEN "released" ELSE @]
      /\ \A t \in Streams \ {s} :
           \/ request'[t] = request[t]
           \/ request[t] = "waiting" /\ request'[t] = "granted"
  <2>1. "background" \in Requests \ {"waiting", "granted"}
    BY DEF Requests
  <2> QED BY <1>1, <1>2, <2>1, Releasing
<1>4. LinkedOne(s)'
  BY <1>1, <1>2, <1>3 DEF Types, LinkedOne
<1>5. \A t \in Streams \ {s} : Unmoved(t)
  BY <1>2, <1>3 DEF Types, Unmoved
<1> QED BY <1>3, <1>4, <1>5, OneMoves

\* The steps of the generator that hold on to the lease.
LEMMA RunningSteps ==
  ASSUME IInv, NEW s \in Streams,
         \/ Begin(s) \/ FindHere(s) \/ EventForNobody(s) \/ Completed(s)
         \/ StreamFails(s) \/ CloseFails(s) \/ Unwound(s)
         \/ \E size \in DeltaSizes : Delta(s, size)
  PROVE  IInv'
<1> USE DEF IInv
<1> DEFINE Quiet == UNCHANGED <<permits, arrivals, request, lease, client, wire>>
<1>1. CASE Begin(s)
  <2>1. gen[s] = "created" /\ gen' = [gen EXCEPT ![s] = "enter"]
        /\ Quiet /\ UNCHANGED <<after, upstream, emitted>>
    BY <1>1 DEF Begin, semaphore
  <2>2. Types'
    BY <2>1 DEF Types, Gens, Awaiting
  <2>3. LinkedOne(s)' /\ HeardOne(s)'
    BY <2>1 DEF Types, Linked, Heard, LinkedOne, HeardOne, Live, Awaiting
  <2> QED BY <2>1, <2>2, <2>3, GeneratorMoves DEF Types
<1>2. CASE FindHere(s)
  <2>1. /\ \/ gen[s] = "enter" /\ gen' = [gen EXCEPT ![s] = "start"]
           \/ gen[s] = "handler" /\ gen' = [gen EXCEPT ![s] = "error"]
        /\ Quiet /\ UNCHANGED <<after, upstream, emitted>>
    BY <1>2 DEF FindHere, Yield, semaphore
  <2>2. Types'
    BY <2>1 DEF Types, Gens, Sending
  <2>3. LinkedOne(s)' /\ HeardOne(s)'
    BY <2>1 DEF Types, Linked, Heard, LinkedOne, HeardOne, Live, Sending
  <2> QED BY <2>1, <2>2, <2>3, GeneratorMoves DEF Types
<1>3. CASE EventForNobody(s)
  <2>1. /\ gen[s] = "next" /\ gen' = [gen EXCEPT ![s] = "close"]
        /\ after' = [after EXCEPT ![s] = "return"]
        /\ Quiet /\ UNCHANGED <<upstream, emitted>>
    BY <1>3 DEF EventForNobody, CloseThen, semaphore
  <2>2. Types'
    BY <2>1 DEF Types, Gens, Awaiting
  <2>3. LinkedOne(s)' /\ HeardOne(s)'
    BY <2>1 DEF Types, Linked, Heard, LinkedOne, HeardOne, Live, Awaiting
  <2> QED BY <2>1, <2>2, <2>3, GeneratorMoves DEF Types
<1>4. CASE Completed(s)
  <2>1. /\ gen[s] = "next" /\ gen' = [gen EXCEPT ![s] = "complete"]
        /\ Quiet /\ UNCHANGED <<after, upstream, emitted>>
    BY <1>4 DEF Completed, Yield, semaphore
  <2>2. Types'
    BY <2>1 DEF Types, Gens, Sending
  <2>3. LinkedOne(s)' /\ HeardOne(s)'
    BY <2>1 DEF Types, Linked, Heard, LinkedOne, HeardOne, Live, Sending
  <2> QED BY <2>1, <2>2, <2>3, GeneratorMoves DEF Types
<1>5. CASE StreamFails(s) \/ CloseFails(s) \/ Unwound(s)
  <2>1. /\ gen[s] \in {"next", "close", "unwinding"}
        /\ gen' = [gen EXCEPT ![s] = "handler"]
        /\ upstream' = [upstream EXCEPT ![s] = FALSE]
        /\ Quiet /\ UNCHANGED <<after, emitted>>
    BY <1>5 DEF StreamFails, CloseFails, Unwound, semaphore
  <2>2. Types'
    BY <2>1 DEF Types, Gens, Awaiting
  <2>3. LinkedOne(s)' /\ HeardOne(s)'
    BY <2>1 DEF Types, Linked, Heard, LinkedOne, HeardOne, Live, Awaiting
  <2> QED BY <2>1, <2>2, <2>3, GeneratorMoves DEF Types
<1>6. CASE \E size \in DeltaSizes : Delta(s, size)
  <2>1. PICK size \in DeltaSizes :
          /\ gen[s] = "next" /\ emitted' = [emitted EXCEPT ![s] = @ + size]
          /\ \/ /\ gen' = [gen EXCEPT ![s] = "close"]
                /\ after' = [after EXCEPT ![s] = "handler"]
             \/ /\ emitted[s] + size <= MaxChars
                /\ gen' = [gen EXCEPT ![s] = "delta"]
                /\ UNCHANGED after
          /\ Quiet /\ UNCHANGED upstream
    <3>1. PICK size \in DeltaSizes : Delta(s, size)
      BY <1>6
    <3>2. size \in Nat /\ emitted[s] \in Nat /\ MaxChars \in Nat
      BY SettingsAssumption DEF Types
    <3>3. ~(emitted[s] + size > MaxChars) => emitted[s] + size <= MaxChars
      BY <3>2
    <3> QED BY <3>1, <3>3 DEF Delta, CloseThen, semaphore
  <2>2. size \in Nat
    BY SettingsAssumption
  <2>3. Types'
    <3>1. emitted' \in [Streams -> Nat]
      BY <2>1, <2>2 DEF Types
    <3>2. gen' \in [Streams -> Gens] /\ after' \in [Streams -> {"return", "handler"}]
      BY <2>1 DEF Types, Gens, Sending, Awaiting
    <3> QED BY <2>1, <3>1, <3>2 DEF Types
  <2>4. LinkedOne(s)' /\ HeardOne(s)'
    BY <2>1, <2>2 DEF Types, Linked, Heard, LinkedOne, HeardOne, Live, Awaiting, Sending
  <2> QED BY <2>1, <2>3, <2>4, GeneratorMoves DEF Types
<1> QED BY <1>1, <1>2, <1>3, <1>4, <1>5, <1>6

\* What a client has received after a chunk was sent.
LEMMA ReceivedStep ==
  ASSUME IInv, NEW s \in Streams, Received(s)
  PROVE  /\ wire' \in [Streams -> Wire]
         /\ \A t \in Streams \ {s} : wire'[t] = wire[t]
         /\ wire'[s] = IF client[s] THEN Extended(wire[s], gen[s], emitted[s])
                                   ELSE wire[s]
<1> USE DEF IInv
<1>1. wire[s] \in Wire /\ emitted[s] \in Nat
  BY DEF Types
<1>2. Extended(wire[s], gen[s], emitted[s]) \in Wire
  BY <1>1 DEF Extended, Wire
<1> QED BY <1>1, <1>2 DEF Received, Types

\* A chunk was sent: more is asked for, or the stream is over.
LEMMA SentStep ==
  ASSUME IInv, NEW s \in Streams, Sent(s)
  PROVE  IInv'
<1> USE DEF IInv
<1>1. gen[s] \in Sending /\ Received(s) /\ UNCHANGED <<emitted, client>>
  BY DEF Sent
<1>2. /\ wire' \in [Streams -> Wire]
      /\ \A t \in Streams \ {s} : wire'[t] = wire[t]
      /\ wire'[s] = IF client[s] THEN Extended(wire[s], gen[s], emitted[s])
                                ELSE wire[s]
  BY <1>1, ReceivedStep
<1>3. /\ wire[s].start \in Nat /\ wire[s].chars \in Nat
      /\ wire[s].complete \in Nat /\ wire[s].error \in Nat
      /\ emitted[s] \in Nat /\ MaxChars \in Nat
  BY SettingsAssumption DEF Types, Wire
<1>7. /\ wire'[s].start = IF client[s] /\ gen[s] = "start" THEN wire[s].start + 1
                                                           ELSE wire[s].start
      /\ wire'[s].chars = IF client[s] /\ gen[s] = "delta" THEN emitted[s]
                                                           ELSE wire[s].chars
      /\ wire'[s].complete = IF client[s] /\ gen[s] = "complete"
                               THEN wire[s].complete + 1 ELSE wire[s].complete
      /\ wire'[s].error = IF client[s] /\ gen[s] = "error" THEN wire[s].error + 1
                                                           ELSE wire[s].error
  BY <1>2 DEF Extended
<1>8. HeardOne(s)
  BY DEF Heard
<1>4. CASE gen[s] \in {"start", "delta"}
  <2>1. /\ gen' = [gen EXCEPT ![s] = "next"] /\ upstream' = [upstream EXCEPT ![s] = TRUE]
        /\ UNCHANGED <<permits, arrivals, request, lease, after>>
    BY <1>4 DEF Sent, semaphore
  <2>2. Types'
    BY <1>1, <1>2, <2>1 DEF Types, Gens, Awaiting
  <2>3. LinkedOne(s)'
    BY <1>1, <1>4, <2>1 DEF Types, Linked, LinkedOne, Live, Awaiting
  <2>4. HeardOne(s)'
    <3>1. gen'[s] = "next" /\ client'[s] = client[s]
      BY <1>1, <2>1 DEF Types
    <3>2. gen[s] = "delta" => emitted[s] <= MaxChars
      BY DEF Linked, LinkedOne
    <3>3. gen[s] = "start" => /\ wire[s].start = 0 /\ wire[s].chars = 0
                              /\ wire[s].complete = 0 /\ wire[s].error = 0
      BY <1>8 DEF HeardOne
    <3>4. gen[s] = "delta" => wire[s].complete = 0 /\ (client[s] => wire[s].start = 1)
      BY <1>8 DEF HeardOne
    <3>5. wire[s].error = 0
      BY <1>3, <1>4, <1>8 DEF HeardOne
    <3> QED BY <1>7, <1>8, <1>3, <1>4, <3>1, <3>2, <3>3, <3>4, <3>5 DEF HeardOne
  <2> QED BY <1>1, <1>2, <2>1, <2>2, <2>3, <2>4, GeneratorMoves DEF Types
<1>5. CASE gen[s] = "complete"
  <2>1. /\ gen' = [gen EXCEPT ![s] = "close"]
        /\ after' = [after EXCEPT ![s] = "return"]
        /\ UNCHANGED <<permits, arrivals, request, lease, upstream>>
    BY <1>5 DEF Sent, semaphore
  <2>2. Types'
    BY <1>1, <1>2, <2>1 DEF Types, Gens, Awaiting
  <2>3. LinkedOne(s)'
    BY <1>1, <1>5, <2>1 DEF Types, Linked, LinkedOne, Live, Awaiting
  <2>4. HeardOne(s)'
    <3>1. gen'[s] = "close" /\ client'[s] = client[s]
      BY <1>1, <2>1 DEF Types
    <3>2. wire[s].complete = 0 /\ wire[s].error = 0 /\ (client[s] => wire[s].start = 1)
      BY <1>3, <1>5, <1>8 DEF HeardOne
    <3> QED BY <1>7, <1>8, <1>3, <1>5, <3>1, <3>2 DEF HeardOne
  <2> QED BY <1>1, <1>2, <2>1, <2>2, <2>3, <2>4, GeneratorMoves DEF Types
<1>6. CASE gen[s] = "error"
  <2>1. End(s) /\ UNCHANGED <<after, upstream>>
    BY <1>6 DEF Sent
  <2>2. gen' = [gen EXCEPT ![s] = "ended"]
    BY <2>1 DEF End
  <2>3. request[s] = "streaming" /\ ~upstream[s]
    BY <1>6 DEF Linked, LinkedOne, Types, Requests
  <2>4. /\ arrivals' = arrivals /\ request' \in [Streams -> Requests]
        /\ lease' = [lease EXCEPT ![s] = IF @ = "held" THEN "released" ELSE @]
    <3>1. "background" \in Requests \ {"waiting", "granted"}
      BY DEF Requests
    <3> QED BY <2>1, <2>3, <3>1, Releasing DEF End
  <2>5. Types'
    BY <1>1, <1>2, <2>1, <2>2, <2>4 DEF Types, Gens
  <2>6. HeardOne(s)'
    BY <1>1, <1>2, <1>3, <1>6, <2>2 DEF Types, Heard, HeardOne, Extended
  <2> QED BY <1>1, <1>2, <1>6, <2>1, <2>3, <2>5, <2>6, EndStep DEF Live, Sending
<1> QED BY <1>1, <1>4, <1>5, <1>6 DEF Sending

\* The types after a step in which the generator ends.
LEMMA EndTypes ==
  ASSUME IInv, NEW s \in Streams, End(s), gen[s] \in Live,
         upstream' \in [Streams -> BOOLEAN],
         UNCHANGED <<after, emitted, client, wire>>
  PROVE  Types' /\ HeardOne(s)'
<1> USE DEF IInv
<1>1. request[s] = "streaming"
  BY DEF Linked, LinkedOne, Live, Sending, Awaiting, Types, Requests
<1>2. gen' = [gen EXCEPT ![s] = "ended"]
  BY DEF End
<1>3. /\ arrivals' = arrivals /\ request' \in [Streams -> Requests]
      /\ lease' = [lease EXCEPT ![s] = IF @ = "held" THEN "released" ELSE @]
  <2>1. "background" \in Requests \ {"waiting", "granted"}
    BY DEF Requests
  <2> QED BY <1>1, <2>1, Releasing DEF End
<1>4. Types'
  BY <1>2, <1>3 DEF Types, Gens
<1>5. HeardOne(s)'
  BY <1>2 DEF Types, Heard, HeardOne
<1> QED BY <1>4, <1>5

\* The client is gone: the generator returns.
LEMMA FindGoneStep ==
  ASSUME IInv, NEW s \in Streams, FindGone(s)
  PROVE  IInv'
<1>1. /\ gen[s] \in {"enter", "handler"} /\ End(s)
      /\ UNCHANGED <<after, upstream, emitted, client, wire>>
  BY DEF FindGone
<1>2. gen[s] \in Live /\ ~upstream[s]
  BY <1>1 DEF IInv, Linked, LinkedOne, Live, Awaiting
<1>3. Types' /\ HeardOne(s)'
  BY <1>1, <1>2, EndTypes DEF IInv, Types
<1> QED BY <1>1, <1>2, <1>3, EndStep

\* aclosing is done.
LEMMA ClosedStep ==
  ASSUME IInv, NEW s \in Streams, Closed(s)
  PROVE  IInv'
<1> USE DEF IInv
<1>1. /\ gen[s] = "close" /\ upstream' = [upstream EXCEPT ![s] = FALSE]
      /\ UNCHANGED <<after, emitted, client, wire>>
  BY DEF Closed
<1>2. CASE after[s] = "return"
  <2>1. End(s) /\ gen[s] \in Live
    BY <1>1, <1>2 DEF Closed, Live, Awaiting
  <2>2. Types' /\ HeardOne(s)'
    BY <1>1, <2>1, EndTypes DEF Types
  <2> QED BY <1>1, <2>1, <2>2, EndStep DEF Types
<1>3. CASE after[s] # "return"
  <2>1. /\ gen' = [gen EXCEPT ![s] = "handler"]
        /\ UNCHANGED <<permits, arrivals, request, lease>>
    BY <1>3 DEF Closed, semaphore
  <2>2. Types'
    BY <1>1, <2>1 DEF Types, Gens, Awaiting
  <2>3. LinkedOne(s)' /\ HeardOne(s)'
    BY <1>1, <2>1 DEF Types, Linked, Heard, LinkedOne, HeardOne, Live, Awaiting
  <2> QED BY <1>1, <2>1, <2>2, <2>3, GeneratorMoves DEF Types
<1> QED BY <1>2, <1>3

LEMMA ProviderTimeoutStep ==
  ASSUME IInv, NEW s \in Streams, ProviderTimeout(s)
  PROVE  IInv'
<1> USE DEF IInv
<1>1. CASE gen[s] \in {"next", "close"}
  <2>1. /\ \/ /\ gen[s] = "next" /\ gen' = [gen EXCEPT ![s] = "unwinding"]
              /\ upstream' = upstream
           \/ /\ gen' = [gen EXCEPT ![s] = "handler"]
              /\ upstream' = [upstream EXCEPT ![s] = FALSE]
        /\ UNCHANGED <<permits, arrivals, request, lease, after, emitted, client, wire>>
    BY <1>1 DEF ProviderTimeout, semaphore
  <2>2. Types'
    BY <2>1 DEF Types, Gens, Awaiting
  <2>3. LinkedOne(s)' /\ HeardOne(s)'
    BY <1>1, <2>1 DEF Types, Linked, Heard, LinkedOne, HeardOne, Live, Awaiting
  <2> QED BY <2>1, <2>2, <2>3, GeneratorMoves DEF Types
<1>2. CASE gen[s] \notin {"next", "close"}
  <2>1. /\ gen[s] \in Sending /\ Abandon(s)
        /\ UNCHANGED <<after, emitted, client, wire>>
    BY <1>2 DEF ProviderTimeout, Sending
  <2> QED BY <2>1, AbandonStep
<1> QED BY <1>1, <1>2

\* A client that leaves has received what it has received.
LEMMA DisconnectStep ==
  ASSUME IInv, NEW s \in Streams, Disconnect(s)
  PROVE  IInv'
<1>1. /\ client' = [client EXCEPT ![s] = FALSE]
      /\ UNCHANGED <<permits, arrivals, request, lease, gen, after, upstream, emitted, wire>>
  BY DEF Disconnect, semaphore
<1>2. Types'
  BY <1>1 DEF IInv, Types
<1>3. LinkedOne(s)' /\ HeardOne(s)'
  BY <1>1 DEF IInv, Types, Linked, Heard, LinkedOne, HeardOne
<1> QED BY <1>1, <1>2, <1>3, GeneratorMoves DEF IInv, Types

LEMMA CancelStep ==
  ASSUME IInv, NEW s \in Streams, Cancel(s)
  PROVE  IInv'
<1> USE DEF IInv
<1>1. request[s] = "streaming" /\ UNCHANGED <<after, emitted, client, wire>>
  BY DEF Cancel
<1>2. CASE gen[s] \in Sending
  <2>1. Abandon(s)
    BY <1>2 DEF Cancel, Sending, Awaiting
  <2> QED BY <1>1, <1>2, <2>1, AbandonStep
<1>3. CASE gen[s] \in Awaiting
  <2>1. End(s) /\ gen[s] \in Live /\ upstream' = [upstream EXCEPT ![s] = FALSE]
    BY <1>3 DEF Cancel, Sending, Awaiting, Live
  <2>2. Types' /\ HeardOne(s)'
    BY <1>1, <2>1, EndTypes DEF Types
  <2> QED BY <1>1, <2>1, <2>2, EndStep DEF Types
<1>4. CASE gen[s] \notin Sending \cup Awaiting
  <2>1. /\ gen[s] = "created" /\ gen' = [gen EXCEPT ![s] = "ended"]
        /\ request' = Becomes(s, "background")
        /\ UNCHANGED <<permits, arrivals, lease, upstream>>
    BY <1>4 DEF Cancel, semaphore
  <2>2. Types'
    BY <1>1, <2>1 DEF Types, Becomes, Requests, Gens
  <2>3. Counted'
    BY <1>1, <2>1, SameWaiters, CountFrame DEF Requests, With
  <2>4. LinkedOne(s)' /\ HeardOne(s)'
    BY <1>1, <2>1 DEF Types, Linked, Heard, LinkedOne, HeardOne, Becomes
  <2>5. \A t \in Streams \ {s} : Unmoved(t)
    BY <1>1, <2>1 DEF Types, Unmoved, Becomes
  <2> QED BY <2>2, <2>3, <2>4, <2>5, OneMoves
<1> QED BY <1>2, <1>3, <1>4

LEMMA RejectStep ==
  ASSUME IInv, NEW s \in Streams, Reject(s)
  PROVE  IInv'
<1> USE DEF IInv
<1>1. /\ request[s] = "new" /\ request' = Becomes(s, "refused")
      /\ UNCHANGED <<permits, arrivals, lease, gen, after, upstream, emitted, client, wire>>
  BY DEF Reject, semaphore
<1>2. Types'
  BY <1>1 DEF Types, Becomes, Requests
<1>3. Counted'
  BY <1>1, SameWaiters, CountFrame DEF Requests, With
<1>4. LinkedOne(s)' /\ HeardOne(s)'
  BY <1>1 DEF Types, Linked, Heard, LinkedOne, HeardOne, Becomes
<1>5. \A t \in Streams \ {s} : Unmoved(t)
  BY <1>1 DEF Types, Unmoved, Becomes
<1> QED BY <1>2, <1>3, <1>4, <1>5, OneMoves

\* The background task and the finalizer release a lease that may have been
\* released before.
LEMMA LateReleaseStep ==
  ASSUME IInv, NEW s \in Streams, Background(s) \/ Finalize(s)
  PROVE  IInv'
<1> USE DEF IInv
<1>1. /\ request[s] \in {"background", "answered"}
      /\ \/ gen' = gen /\ upstream' = upstream
         \/ /\ gen[s] = "abandoned" /\ gen' = [gen EXCEPT ![s] = "ended"]
            /\ upstream' = [upstream EXCEPT ![s] = FALSE]
      /\ Release(s, Becomes(s, "answered"))
      /\ UNCHANGED <<after, emitted, client, wire>>
  <2>1. request[s] = "answered" => Becomes(s, "answered") = request
    BY DEF Becomes, Types
  <2> QED BY <2>1 DEF Background, Finalize
<1>2. /\ lease[s] \in {"held", "released"} /\ gen[s] \in {"abandoned", "ended"}
  BY <1>1 DEF Linked, LinkedOne
<1>3. /\ Counted' /\ arrivals' = arrivals
      /\ request' \in [Streams -> Requests] /\ request'[s] = "answered"
      /\ lease' = [lease EXCEPT ![s] = IF @ = "held" THEN "released" ELSE @]
      /\ \A t \in Streams \ {s} :
           \/ request'[t] = request[t]
           \/ request[t] = "waiting" /\ request'[t] = "granted"
  <2>1. "answered" \in Requests \ {"waiting", "granted"}
    BY DEF Requests
  <2> QED BY <1>1, <2>1, Releasing
<1>4. Types'
  BY <1>1, <1>3 DEF Types, Gens
<1>5. LinkedOne(s)'
  BY <1>1, <1>2, <1>3 DEF Types, Linked, LinkedOne
<1>6. HeardOne(s)'
  BY <1>1, <1>2 DEF Types, Heard, HeardOne
<1>7. \A t \in Streams \ {s} : Unmoved(t)
  BY <1>1, <1>3 DEF Types, Unmoved
<1> QED BY <1>3, <1>4, <1>5, <1>6, <1>7, OneMoves

-----------------------------------------------------------------------------
(* The theorems.                                                           *)

LEMMA NextInvariant == IInv /\ [Next]_vars => IInv'
<1> SUFFICES ASSUME IInv, [Next]_vars PROVE IInv'
  OBVIOUS
<1>1. CASE UNCHANGED vars
  BY <1>1 DEF vars, IInv, Types, Counted, Sum, With, Linked, LinkedOne,
              Heard, HeardOne
<1>2. CASE Next
  <2>1. PICK s \in Streams :
          \/ Reject(s) \/ Arrive(s) \/ Admit(s) \/ AdmissionTimeout(s)
          \/ Begin(s) \/ FindGone(s) \/ FindHere(s) \/ Sent(s) \/ EventForNobody(s)
          \/ \E size \in DeltaSizes : Delta(s, size)
          \/ Completed(s) \/ StreamFails(s) \/ Closed(s) \/ CloseFails(s)
          \/ ProviderTimeout(s) \/ Unwound(s) \/ Disconnect(s) \/ Cancel(s)
          \/ Background(s) \/ Finalize(s)
    BY <1>2 DEF Next
  <2> QED BY <2>1, RejectStep, ArriveStep, AdmitStep, AdmissionTimeoutStep,
             RunningSteps, FindGoneStep, SentStep, ClosedStep, ProviderTimeoutStep,
             DisconnectStep, CancelStep, LateReleaseStep
<1> QED BY <1>1, <1>2

\* The invariant that the other theorems rest on holds of every reachable
\* state of the streaming endpoint.
THEOREM Invariant == Spec => []IInv
BY InitInvariant, NextInvariant, PTL DEF Spec

\* Every variable of stream_generation and generate_sse keeps its type.
THEOREM TypeCorrect == Spec => []TypeOK
<1>1. IInv => TypeOK
  <2> SUFFICES ASSUME IInv PROVE TypeOK
    OBVIOUS
  <2>1. /\ permits \in Nat /\ Sum
        /\ Cardinality(With(request, "granted")) \in Nat
        /\ Cardinality(With(lease, "held")) \in Nat
    BY FS_CardinalityType DEF IInv, Counted
  <2>2. permits \in 0..Capacity
    BY <2>1, SettingsAssumption DEF Sum
  <2> QED BY <2>2 DEF IInv, Types, TypeOK
<1> QED BY <1>1, Invariant, PTL

-----------------------------------------------------------------------------
(* A free permit is never idle while requests wait.                        *)

Awake ==
  With(request, "waiting") # {} => permits = 0 \/ With(request, "granted") # {}

\* What is given away is all that is free, or as much as is asked for.
LEMMA GrantingAwake ==
  ASSUME NEW free \in Nat, NEW n \in Nat, n = free \/ n > 0, NEW status,
         IsFiniteSet(With(status, "waiting")), GrantUpTo(n, free, status)
  PROVE  Awake'
<1>1. PICK given \in SUBSET With(status, "waiting") :
        /\ given = With(status, "waiting") \/ Cardinality(given) \in {n, free}
        /\ permits' = free - Cardinality(given)
        /\ request' = [s \in Streams |-> IF s \in given THEN "granted" ELSE status[s]]
  BY DEF GrantUpTo, With
<1>2. CASE given = With(status, "waiting")
  BY <1>1, <1>2 DEF Awake, With
<1>3. CASE Cardinality(given) = free
  BY <1>1, <1>3 DEF Awake
<1>4. CASE Cardinality(given) = n /\ n > 0
  <2>1. given # {}
    BY <1>4, FS_EmptySet
  <2>2. given \subseteq With(request, "granted")'
    BY <1>1 DEF With
  <2> QED BY <2>1, <2>2 DEF Awake
<1> QED BY <1>1, <1>2, <1>3, <1>4

LEMMA AwakeFrame ==
  ASSUME Awake, permits' = permits,
         With(request', "granted") = With(request, "granted"),
         With(request', "waiting") = With(request, "waiting")
  PROVE  Awake'
BY DEF Awake, With

LEMMA ReleasingAwake ==
  ASSUME IInv, Awake, NEW s \in Streams,
         NEW r \in Requests \ {"waiting", "granted"},
         request[s] \notin {"waiting", "granted"}, Release(s, Becomes(s, r))
  PROVE  Awake'
<1>1. /\ With(Becomes(s, r), "granted") = With(request, "granted")
      /\ With(Becomes(s, r), "waiting") = With(request, "waiting")
  BY SameWaiters DEF IInv
<1>2. CASE lease[s] = "held"
  <2>1. permits + 1 \in Nat /\ IsFiniteSet(With(Becomes(s, r), "waiting"))
    BY <1>1 DEF IInv, Counted
  <2>2. GrantUpTo(1, permits + 1, Becomes(s, r))
    BY <1>2 DEF Release
  <2> QED BY <2>1, <2>2, GrantingAwake
<1>3. CASE lease[s] # "held"
  BY <1>1, <1>3, AwakeFrame DEF Release, semaphore
<1> QED BY <1>2, <1>3

LEMMA NextAwake ==
  ASSUME IInv, Awake, [Next]_vars
  PROVE  Awake'
<1>1. ASSUME UNCHANGED <<permits, request>> PROVE Awake'
  BY <1>1 DEF Awake, With
<1>2. ASSUME NEW s \in Streams, NEW r \in Requests \ {"waiting", "granted"},
             request[s] \notin {"waiting", "granted"},
             request' = Becomes(s, r), permits' = permits
      PROVE  Awake'
  BY <1>2, SameWaiters, AwakeFrame DEF IInv
<1>3. permits \in Nat /\ IsFiniteSet(With(request, "waiting"))
  BY DEF IInv, Counted
<1>4. ASSUME NEW s \in Streams, gen[s] \in Live
      PROVE  request[s] = "streaming"
  BY <1>4 DEF IInv, Linked, LinkedOne, Types, Requests, Live, Sending, Awaiting
<1>5. {"refused", "background", "answered", "streaming"}
        \subseteq Requests \ {"waiting", "granted"}
  BY DEF Requests
<1>6. ASSUME NEW s \in Streams, gen[s] \in Live, End(s) PROVE Awake'
  BY <1>4, <1>5, <1>6, ReleasingAwake DEF End
<1>7. ASSUME NEW s \in Streams, gen[s] \in Sending, Abandon(s) PROVE Awake'
  BY <1>2, <1>4, <1>5, <1>7 DEF Abandon, semaphore, Live
<1>8. CASE UNCHANGED vars
  BY <1>1, <1>8 DEF vars
<1>9. ASSUME NEW s \in Streams, Reject(s) PROVE Awake'
  BY <1>2, <1>5, <1>9 DEF Reject, semaphore
<1>10. ASSUME NEW s \in Streams, Arrive(s) PROVE Awake'
  <2>1. CASE permits > 0 /\ \A t \in Streams : request[t] \notin {"waiting", "granted"}
    <3>1. request' = Becomes(s, "streaming")
      BY <1>10, <2>1 DEF Arrive
    <3>2. With(request, "waiting")' = {}
      BY <2>1, <3>1 DEF With, Becomes, IInv, Types
    <3> QED BY <3>2 DEF Awake
  <2>2. CASE ~(permits > 0 /\ \A t \in Streams : request[t] \notin {"waiting", "granted"})
    <3>1. request' = Becomes(s, "waiting") /\ permits' = permits /\ request[s] = "new"
      BY <1>10, <2>2 DEF Arrive
    <3>2. permits = 0 \/ With(request, "granted") # {}
      BY <1>3, <2>2 DEF Awake, With
    <3>3. With(request, "granted") \subseteq With(request, "granted")'
      BY <3>1 DEF With, Becomes, IInv, Types
    <3> QED BY <3>1, <3>2, <3>3 DEF Awake
  <2> QED BY <2>1, <2>2
<1>11. ASSUME NEW s \in Streams, Admit(s) PROVE Awake'
  <2>1. GrantUpTo(permits, permits, Becomes(s, "streaming")) /\ request[s] = "granted"
    BY <1>11 DEF Admit, LeaveQueue
  <2>2. With(Becomes(s, "streaming"), "waiting") = With(request, "waiting")
    BY <2>1 DEF With, Becomes, IInv, Types
  <2> QED BY <1>3, <2>1, <2>2, GrantingAwake
<1>12. ASSUME NEW s \in Streams, AdmissionTimeout(s) PROVE Awake'
  <2> DEFINE free == IF request[s] = "granted" THEN permits + 1 ELSE permits
  <2>1. GrantUpTo(free, free, Becomes(s, "refused")) /\ free \in Nat
    BY <1>3, <1>12 DEF AdmissionTimeout, LeaveQueue
  <2>2. With(Becomes(s, "refused"), "waiting") \in SUBSET With(request, "waiting")
    BY DEF With, Becomes, IInv, Types
  <2>3. IsFiniteSet(With(Becomes(s, "refused"), "waiting"))
    BY <1>3, <2>2, FS_Subset
  <2> HIDE DEF free
  <2> QED BY <2>1, <2>3, GrantingAwake
<1>13. ASSUME NEW s \in Streams,
              \/ Begin(s) \/ FindHere(s) \/ EventForNobody(s) \/ Completed(s)
              \/ StreamFails(s) \/ CloseFails(s) \/ Unwound(s) \/ Disconnect(s)
              \/ \E size \in DeltaSizes : Delta(s, size)
       PROVE  Awake'
  BY <1>1, <1>13 DEF Begin, FindHere, EventForNobody, Completed, StreamFails,
     CloseFails, Unwound, Disconnect, Delta, Yield, semaphore
<1>14. ASSUME NEW s \in Streams, FindGone(s) \/ Sent(s) \/ Closed(s) PROVE Awake'
  <2>1. gen[s] \in Live
    BY <1>14 DEF FindGone, Sent, Closed, Live, Awaiting
  <2> QED BY <1>1, <1>6, <1>14, <2>1 DEF FindGone, Sent, Closed, semaphore
<1>15. ASSUME NEW s \in Streams, ProviderTimeout(s) PROVE Awake'
  BY <1>1, <1>7, <1>15 DEF ProviderTimeout, semaphore, Sending
<1>16. ASSUME NEW s \in Streams, Cancel(s) PROVE Awake'
  BY <1>2, <1>5, <1>6, <1>7, <1>16 DEF Cancel, semaphore, Live
<1>17. ASSUME NEW s \in Streams, Background(s) \/ Finalize(s) PROVE Awake'
  <2>1. /\ request[s] \notin {"waiting", "granted"}
        /\ Release(s, Becomes(s, "answered"))
    <3>1. request[s] = "answered" => Becomes(s, "answered") = request
      BY DEF Becomes, IInv, Types
    <3> QED BY <1>17, <3>1 DEF Background, Finalize
  <2> QED BY <1>5, <2>1, ReleasingAwake
<1> QED BY <1>8, <1>9, <1>10, <1>11, <1>12, <1>13, <1>14, <1>15, <1>16, <1>17 DEF Next

\* For any number of requests and permits, no order of finally clauses,
\* background tasks, finalizers, timeouts and cancellations returns a permit
\* twice, loses one, or leaves one idle while requests wait.
THEOREM PermitsKept == Spec => []PermitsAccounted
<1>1. Init => Awake
  BY DEF Init, Awake, With
<1>2. Spec => []Awake
  BY <1>1, NextAwake, Invariant, PTL DEF Spec
<1>3. IInv /\ Awake => PermitsAccounted
  BY DEF IInv, Counted, Sum, Awake, PermitsAccounted
<1> QED BY <1>2, <1>3, Invariant, PTL

\* A generator that may still yield holds its lease, and so does an open
\* provider stream, unless its generator was abandoned.
THEOREM LeasedWork == Spec => []WorkIsLeased
<1>1. IInv => WorkIsLeased
  <2> SUFFICES ASSUME IInv, NEW s \in Streams
               PROVE  /\ gen[s] \in Live => lease[s] = "held"
                      /\ upstream[s] => gen[s] = "abandoned" \/ lease[s] = "held"
                      /\ request[s] = "answered" => lease[s] = "released"
    BY DEF WorkIsLeased, Live
  <2>1. request[s] \in Requests /\ LinkedOne(s)
    BY DEF IInv, Types, Linked
  <2>2. gen[s] \in Live => lease[s] = "held"
    BY <2>1 DEF LinkedOne, Requests, Live, Sending, Awaiting
  <2> QED BY <2>1, <2>2 DEF LinkedOne, Live, Sending, Awaiting
<1> QED BY <1>1, Invariant, PTL

\* A client receives a prefix of a conversation within the limit.
THEOREM BoundedOutput == Spec => []OutputIsBounded
<1>1. IInv => OutputIsBounded
  BY DEF IInv, Heard, HeardOne, OutputIsBounded
<1> QED BY <1>1, Invariant, PTL

\* Nothing follows an error event, and no text follows a complete event.
THEOREM ErrorEnds == Spec => ErrorIsLast
<1>1. IInv /\ [Next]_vars =>
        [\A s \in Streams :
           /\ wire[s].error > 0 => wire'[s] = wire[s]
           /\ wire[s].complete > 0 => wire'[s].chars = wire[s].chars]_vars
  <2> SUFFICES ASSUME IInv, Next, NEW s \in Streams
               PROVE  /\ wire[s].error > 0 => wire'[s] = wire[s]
                      /\ wire[s].complete > 0 => wire'[s].chars = wire[s].chars
    OBVIOUS
  <2>1. CASE wire'[s] = wire[s]
    BY <2>1
  <2>2. CASE wire'[s] # wire[s]
    <3>1. Sent(s)
      <4>1. PICK t \in Streams : wire' = wire \/ Sent(t)
        BY DEF Next, Reject, Arrive, Admit, AdmissionTimeout, Begin, FindGone, FindHere,
               Yield, EventForNobody, Delta, Completed, StreamFails, Closed, CloseFails,
               ProviderTimeout, Unwound, Disconnect, Cancel, Background, Finalize
      <4>2. Sent(t) /\ t \in Streams
        BY <2>2, <4>1
      <4>3. \A u \in Streams \ {t} : wire'[u] = wire[u]
        BY <4>2, ReceivedStep DEF Sent
      <4> QED BY <2>2, <4>2, <4>3
    <3>2. /\ gen[s] \in Sending
          /\ wire'[s] = IF client[s] THEN Extended(wire[s], gen[s], emitted[s])
                                    ELSE wire[s]
      BY <3>1, ReceivedStep DEF Sent
    <3>3. HeardOne(s)
      BY DEF IInv, Heard
    <3>4. ~(wire[s].error > 0)
      BY <3>2, <3>3 DEF HeardOne, Sending
    <3>5. gen[s] = "delta" => ~(wire[s].complete > 0)
      BY <3>3 DEF HeardOne
    <3>6. gen[s] # "delta" => wire'[s].chars = wire[s].chars
      BY <3>2 DEF Extended
    <3> QED BY <3>4, <3>5, <3>6
  <2> QED BY <2>1, <2>2
<1> QED BY <1>1, Invariant, PTL DEF Spec, ErrorIsLast

-----------------------------------------------------------------------------
(* The queue of the semaphore: who has waited longest is served first.     *)

\* A request is queued once, and while it waits it is in the queue.
Queue ==
  /\ \A i, j \in DOMAIN arrivals : arrivals[i] = arrivals[j] => i = j
  /\ \A s \in Streams : request[s] = "waiting" => \E i \in DOMAIN arrivals : arrivals[i] = s
  /\ \A s \in Streams : request[s] = "new" => \A i \in DOMAIN arrivals : arrivals[i] # s

\* Nobody is served before one that was there before and still waits.
FirstComeFirstServed ==
  \A s, t \in Streams :
    InFrontOf(s, t) /\ request[s] = "waiting" => request[t] \in {"waiting", "refused"}

\* Permits go to these of the requests that wait according to status.
Served(given, status) ==
  /\ given \subseteq With(status, "waiting")
  /\ \A s \in given, t \in With(status, "waiting") \ given : InFrontOf(s, t)

\* A request moves on, by itself or with a permit, and the queue stays.
LEMMA ServeInOrder ==
  ASSUME arrivals \in Seq(Streams), Queue, FirstComeFirstServed,
         NEW status, NEW given, Served(given, status),
         \A t \in Streams : status[t] \in {"waiting", "new"} => request[t] = status[t],
         \A t \in Streams :
           request[t] \in {"waiting", "refused"} => status[t] \in {"waiting", "refused"},
         request' = [t \in Streams |-> IF t \in given THEN "granted" ELSE status[t]],
         arrivals' = arrivals
  PROVE  Queue' /\ FirstComeFirstServed'
<1>1. Queue'
  BY DEF Queue
<1>2. ASSUME NEW s \in Streams, NEW t \in Streams,
             InFrontOf(s, t), request'[s] = "waiting"
      PROVE  request'[t] \in {"waiting", "refused"}
  <2>1. s \in With(status, "waiting") \ given /\ request[s] = "waiting"
    BY <1>2 DEF With
  <2>2. status[t] \in {"waiting", "refused"}
    BY <1>2, <2>1 DEF FirstComeFirstServed
  <2>3. t \notin given
    <3>1. DOMAIN arrivals \subseteq Nat
      OBVIOUS
    <3>2. ~InFrontOf(t, s)
      BY <1>2, <3>1 DEF InFrontOf, Queue
    <3> QED BY <2>1, <3>2 DEF Served
  <2> QED BY <2>2, <2>3
<1>3. FirstComeFirstServed'
  BY <1>2 DEF FirstComeFirstServed, InFrontOf
<1> QED BY <1>1, <1>3

LEMMA MoveInOrder ==
  ASSUME Types, Queue, FirstComeFirstServed, NEW s \in Streams, NEW r \in Requests,
         r \notin {"waiting", "new"},
         request[s] \in {"waiting", "refused"} => r = "refused",
         \/ request' = Becomes(s, r) /\ UNCHANGED arrivals
         \/ \E n, free \in Nat : GrantUpTo(n, free, Becomes(s, r))
  PROVE  Queue' /\ FirstComeFirstServed'
<1> DEFINE status == Becomes(s, r)
<1>1. /\ \A t \in Streams : status[t] \in {"waiting", "new"} => request[t] = status[t]
      /\ \A t \in Streams :
           request[t] \in {"waiting", "refused"} => status[t] \in {"waiting", "refused"}
  BY DEF Becomes, Types
<1>2. PICK given : /\ Served(given, status) /\ arrivals' = arrivals
                   /\ request' = [t \in Streams |->
                                    IF t \in given THEN "granted" ELSE status[t]]
  <2>1. CASE request' = status /\ UNCHANGED arrivals
    <3>1. Served({}, status)
      BY DEF Served
    <3>2. status = [t \in Streams |-> IF t \in {} THEN "granted" ELSE status[t]]
      BY DEF Becomes, Types
    <3> QED BY <2>1, <3>1, <3>2
  <2>2. CASE \E n, free \in Nat : GrantUpTo(n, free, status)
    BY <2>2 DEF GrantUpTo, Served, With
  <2> QED BY <2>1, <2>2
<1> HIDE DEF status
<1> QED BY <1>1, <1>2, ServeInOrder DEF Types

LEMMA NextInOrder ==
  ASSUME IInv, Queue, FirstComeFirstServed, [Next]_vars
  PROVE  Queue' /\ FirstComeFirstServed'
<1>1. ASSUME UNCHANGED <<arrivals, request>>
      PROVE  Queue' /\ FirstComeFirstServed'
  BY <1>1 DEF Queue, FirstComeFirstServed, InFrontOf
<1>2. permits \in Nat /\ permits + 1 \in Nat /\ 1 \in Nat /\ Types
  BY DEF IInv, Counted
<1>3. ASSUME NEW s \in Streams, NEW r \in {"background", "answered"},
             request[s] \notin {"waiting", "refused"}, Release(s, Becomes(s, r))
      PROVE  Queue' /\ FirstComeFirstServed'
  <2>1. r \in Requests /\ r \notin {"waiting", "new"}
    BY DEF Requests
  <2>2. \/ request' = Becomes(s, r) /\ UNCHANGED arrivals
        \/ GrantUpTo(1, permits + 1, Becomes(s, r))
    BY <1>3 DEF Release, semaphore
  <2> QED BY <1>2, <1>3, <2>1, <2>2, MoveInOrder
<1>4. ASSUME NEW s \in Streams, gen[s] \in Live
      PROVE  request[s] = "streaming"
  BY <1>4 DEF IInv, Linked, LinkedOne, Types, Requests, Live, Sending, Awaiting
<1>5. {"refused", "background", "answered", "streaming"}
        \subseteq Requests \ {"waiting", "new"}
  BY DEF Requests
<1>6. ASSUME NEW s \in Streams, gen[s] \in Live, End(s)
      PROVE  Queue' /\ FirstComeFirstServed'
  BY <1>3, <1>4, <1>6 DEF End
<1>7. ASSUME NEW s \in Streams, NEW r \in {"refused", "background", "streaming"},
             request[s] \in {"waiting", "refused"} => r = "refused",
             request' = Becomes(s, r), UNCHANGED arrivals
      PROVE  Queue' /\ FirstComeFirstServed'
  BY <1>2, <1>5, <1>7, MoveInOrder
<1>8. ASSUME NEW s \in Streams, gen[s] \in Sending, Abandon(s)
      PROVE  Queue' /\ FirstComeFirstServed'
  BY <1>4, <1>7, <1>8 DEF Abandon, semaphore, Live
<1>9. CASE UNCHANGED vars
  BY <1>1, <1>9 DEF vars
<1>10. ASSUME NEW s \in Streams, Reject(s) PROVE Queue' /\ FirstComeFirstServed'
  BY <1>7, <1>10 DEF Reject, semaphore
<1>11. ASSUME NEW s \in Streams, Arrive(s) PROVE Queue' /\ FirstComeFirstServed'
  <2>1. CASE request' = Becomes(s, "streaming") /\ UNCHANGED arrivals
    BY <1>7, <1>11, <2>1 DEF Arrive
  <2>2. CASE request' = Becomes(s, "waiting") /\ arrivals' = Append(arrivals, s)
    <3>1. request[s] = "new" /\ arrivals \in Seq(Streams)
      BY <1>2, <1>11 DEF Arrive, Types
    <3>2. /\ DOMAIN arrivals = 1..Len(arrivals) /\ Len(arrivals) \in Nat
          /\ DOMAIN arrivals' = 1..(Len(arrivals) + 1)
          /\ arrivals'[Len(arrivals) + 1] = s
          /\ \A i \in DOMAIN arrivals : arrivals'[i] = arrivals[i]
      BY <2>2, <3>1
    <3>3. \A i \in DOMAIN arrivals : arrivals[i] # s
      BY <3>1 DEF Queue
    <3>4. /\ request'[s] = "waiting"
          /\ \A t \in Streams \ {s} : request'[t] = request[t]
      BY <1>2, <2>2 DEF Becomes, Types
    <3>5. Queue'
      <4>1. \A i, j \in DOMAIN arrivals' : arrivals'[i] = arrivals'[j] => i = j
        BY <3>2, <3>3 DEF Queue
      <4>2. ASSUME NEW t \in Streams, request'[t] = "waiting"
            PROVE  \E i \in DOMAIN arrivals' : arrivals'[i] = t
        BY <3>2, <3>4, <4>2 DEF Queue
      <4>3. ASSUME NEW t \in Streams, request'[t] = "new", NEW i \in DOMAIN arrivals'
            PROVE  arrivals'[i] # t
        BY <3>2, <3>4, <4>3 DEF Queue
      <4> QED BY <4>1, <4>2, <4>3 DEF Queue
    <3>6. ASSUME NEW t \in Streams, NEW u \in Streams, InFrontOf(t, u)',
                 request'[t] = "waiting"
          PROVE  request'[u] \in {"waiting", "refused"}
      <4>1. PICK i \in DOMAIN arrivals', j \in DOMAIN arrivals' :
              i < j /\ arrivals'[i] = t /\ arrivals'[j] = u
        BY <3>6 DEF InFrontOf
      <4>2. CASE u = s
        BY <3>4, <4>2
      <4>3. CASE u # s
        <5>1. i \in DOMAIN arrivals /\ j \in DOMAIN arrivals
          BY <3>2, <4>1, <4>3
        <5>2. InFrontOf(t, u) /\ t # s
          BY <3>2, <3>3, <4>1, <5>1 DEF InFrontOf
        <5> QED BY <3>4, <3>6, <4>3, <5>2 DEF FirstComeFirstServed
      <4> QED BY <4>2, <4>3
    <3> QED BY <3>5, <3>6 DEF FirstComeFirstServed
  <2> QED BY <1>11, <2>1, <2>2 DEF Arrive
<1>12. ASSUME NEW s \in Streams, Admit(s) PROVE Queue' /\ FirstComeFirstServed'
  BY <1>2, <1>5, <1>12, MoveInOrder DEF Admit, LeaveQueue
<1>13. ASSUME NEW s \in Streams, AdmissionTimeout(s)
       PROVE  Queue' /\ FirstComeFirstServed'
  BY <1>2, <1>5, <1>13, MoveInOrder DEF AdmissionTimeout, LeaveQueue
<1>14. ASSUME NEW s \in Streams,
              \/ Begin(s) \/ FindHere(s) \/ EventForNobody(s) \/ Completed(s)
              \/ StreamFails(s) \/ CloseFails(s) \/ Unwound(s) \/ Disconnect(s)
              \/ \E size \in DeltaSizes : Delta(s, size)
       PROVE  Queue' /\ FirstComeFirstServed'
  BY <1>1, <1>14 DEF Begin, FindHere, EventForNobody, Completed, StreamFails,
     CloseFails, Unwound, Disconnect, Delta, Yield, semaphore
<1>15. ASSUME NEW s \in Streams, FindGone(s) \/ Sent(s) \/ Closed(s)
       PROVE  Queue' /\ FirstComeFirstServed'
  <2>1. gen[s] \in Live
    BY <1>15 DEF FindGone, Sent, Closed, Live, Awaiting
  <2> QED BY <1>1, <1>6, <1>15, <2>1 DEF FindGone, Sent, Closed, semaphore
<1>16. ASSUME NEW s \in Streams, ProviderTimeout(s)
       PROVE  Queue' /\ FirstComeFirstServed'
  BY <1>1, <1>8, <1>16 DEF ProviderTimeout, semaphore, Sending
<1>17. ASSUME NEW s \in Streams, Cancel(s) PROVE Queue' /\ FirstComeFirstServed'
  BY <1>6, <1>7, <1>8, <1>17 DEF Cancel, semaphore, Live
<1>18. ASSUME NEW s \in Streams, Background(s) \/ Finalize(s)
       PROVE  Queue' /\ FirstComeFirstServed'
  <2>1. /\ request[s] \notin {"waiting", "refused"}
        /\ Release(s, Becomes(s, "answered"))
    <3>1. request[s] = "answered" => Becomes(s, "answered") = request
      BY DEF Becomes, IInv, Types
    <3> QED BY <1>18, <3>1 DEF Background, Finalize
  <2> QED BY <1>3, <2>1
<1> QED BY <1>9, <1>10, <1>11, <1>12, <1>13, <1>14, <1>15, <1>16, <1>17, <1>18 DEF Next

LEMMA InOrder == Spec => [](Queue /\ FirstComeFirstServed)
<1>1. Init => Queue /\ FirstComeFirstServed
  BY DEF Init, Queue, FirstComeFirstServed, InFrontOf
<1> QED BY <1>1, NextInOrder, Invariant, PTL DEF Spec

\* For any number of requests and permits, no request is admitted before one
\* that arrived earlier and still waits, however arrivals, permits that come
\* back, wake-ups and timeouts meet.
THEOREM ServedInOrder == Spec => []FirstComeFirstServed
BY InOrder, PTL

-----------------------------------------------------------------------------
(* What EveryRequestAnswered rests on, the fairness apart: a request that  *)
(* is not over can always go on, which includes that a permit can always   *)
(* be handed on (GrantUpTo names the waiters that receive one; there is    *)
(* always such a set).                                                     *)

\* A set of numbers that is not empty has a least one.
LEMMA LeastNatural ==
  ASSUME NEW S \in SUBSET Nat, S # {}
  PROVE  \E m \in S : \A k \in S : m <= k
<1>1. PICK m \in S : \A k \in S : <<k, m>> \notin OpToRel(<, Nat)
  BY NatLessThanWellFounded, WFMin, Zenon
<1>2. \A k \in S : ~(k < m)
  BY <1>1 DEF OpToRel
<1> QED BY <1>2

\* GrantUpTo(n, free, status) can be done.
MayGrant(n, free, status) ==
  \E given : /\ Served(given, status)
             /\ Cardinality(given) <= n /\ Cardinality(given) <= free
             /\ given = With(status, "waiting") \/ Cardinality(given) \in {n, free}

LEMMA SomeAreServed ==
  ASSUME arrivals \in Seq(Streams), NEW n \in Nat, NEW free \in Nat, NEW status,
         IsFiniteSet(With(status, "waiting")),
         \A s \in With(status, "waiting") : \E i \in DOMAIN arrivals : arrivals[i] = s
  PROVE  MayGrant(n, free, status)
<1> DEFINE undone == With(status, "waiting")
           m == IF n <= free THEN n ELSE free
           First(i) == {s \in undone : \E j \in 1..i : arrivals[j] = s}
           Enough == {i \in 0..Len(arrivals) : Cardinality(First(i)) >= m}
<1>1. /\ DOMAIN arrivals = 1..Len(arrivals) /\ Len(arrivals) \in Nat
      /\ m \in Nat /\ m <= n /\ m <= free /\ m \in {n, free}
  OBVIOUS
<1> HIDE DEF m
<1>2. ASSUME NEW i \in Nat
      PROVE  IsFiniteSet(First(i)) /\ Cardinality(First(i)) \in Nat
  BY FS_Subset, FS_CardinalityType
<1>3. CASE Cardinality(undone) <= m
  <2>1. Cardinality(undone) \in Nat
    BY FS_CardinalityType
  <2>2. Served(undone, status)
    BY DEF Served
  <2> QED BY <1>1, <1>3, <2>1, <2>2 DEF MayGrant
<1>4. CASE ~(Cardinality(undone) <= m)
  <2>1. First(Len(arrivals)) = undone /\ First(0) = {}
    BY <1>1
  <2>2. Len(arrivals) \in Enough
    <3>1. Cardinality(undone) \in Nat
      BY FS_CardinalityType
    <3>2. Cardinality(First(Len(arrivals))) = Cardinality(undone)
      BY <2>1
    <3> HIDE DEF First, undone
    <3>3. Cardinality(First(Len(arrivals))) >= m
      BY <1>1, <1>4, <3>1, <3>2
    <3> QED BY <1>1, <3>3
  <2>3. PICK k \in Enough : \A i \in Enough : k <= i
    <3> HIDE DEF First
    <3>1. Enough \in SUBSET Nat
      BY <1>1
    <3> HIDE DEF Enough
    <3> QED BY <2>2, <3>1, LeastNatural
  <2>4. /\ k \in 0..Len(arrivals) /\ Cardinality(First(k)) >= m
        /\ \A i \in 0..Len(arrivals) : i < k => ~(Cardinality(First(i)) >= m)
    BY <1>1, <2>3
  <2> HIDE DEF Enough
  <2>5. Cardinality(First(k)) = m
    <3>1. CASE k = 0
      <4>1. Cardinality(First(k)) = 0
        BY <2>1, <3>1, FS_EmptySet
      <4> QED BY <1>1, <2>4, <4>1
    <3>2. CASE k # 0
      <4> DEFINE before == First(k - 1)
                 more == before \cup {arrivals[k]}
      <4>1. k - 1 \in 0..Len(arrivals) /\ k - 1 \in Nat /\ k \in Nat /\ k - 1 < k
        BY <1>1, <2>4, <3>2
      <4>2. First(k) \subseteq more
        BY <4>1
      <4>3. IsFiniteSet(before) /\ Cardinality(before) \in Nat
        BY <1>2, <4>1
      <4>4. IsFiniteSet(First(k)) /\ Cardinality(First(k)) \in Nat
        BY <1>2, <4>1
      <4>5. ~(Cardinality(before) >= m)
        BY <2>4, <4>1
      <4> HIDE DEF before
      <4>6. CASE arrivals[k] \in before
        <5>1. more = before
          BY <4>6
        <5>2. Cardinality(First(k)) <= Cardinality(before)
          BY <4>2, <4>3, <5>1, FS_Subset
        <5> HIDE DEF First
        <5> QED BY <1>1, <2>4, <4>3, <4>4, <4>5, <5>2
      <4>7. CASE arrivals[k] \notin before
        <5>1. IsFiniteSet(more) /\ Cardinality(more) = Cardinality(before) + 1
          BY <4>3, <4>7, FS_AddElement
        <5> HIDE DEF First, more
        <5>2. Cardinality(First(k)) <= Cardinality(more)
          BY <4>2, <5>1, FS_Subset
        <5> QED BY <1>1, <2>4, <4>3, <4>4, <4>5, <5>1, <5>2
      <4> QED BY <4>6, <4>7
    <3> QED BY <3>1, <3>2
  <2>6. ASSUME NEW s \in First(k), NEW t \in undone \ First(k)
        PROVE  InFrontOf(s, t)
    <3>1. PICK i \in 1..k : arrivals[i] = s
      OBVIOUS
    <3>2. PICK j \in DOMAIN arrivals : arrivals[j] = t
      OBVIOUS
    <3>3. i < j /\ i \in DOMAIN arrivals
      BY <1>1, <2>4, <3>1, <3>2
    <3> QED BY <3>1, <3>2, <3>3 DEF InFrontOf
  <2>7. Served(First(k), status)
    BY <2>6 DEF Served
  <2> HIDE DEF First
  <2> QED BY <1>1, <2>5, <2>7 DEF MayGrant
<1> QED BY <1>3, <1>4

\* The guards of the actions of a request to which Fairness applies.
MayRelease(s, status) == lease[s] = "held" => MayGrant(1, permits + 1, status)

MayEnd(s) == MayRelease(s, Becomes(s, "background"))

MayGoOn(s) ==
  \/ request[s] = "granted" /\ MayGrant(permits, permits, Becomes(s, "streaming"))
  \/ /\ request[s] \in {"waiting", "granted"}
     /\ LET free == IF request[s] = "granted" THEN permits + 1 ELSE permits
        IN MayGrant(free, free, Becomes(s, "refused"))
  \/ gen[s] = "created"
  \/ gen[s] \in {"enter", "handler"} /\ (client[s] \/ MayEnd(s))
  \/ gen[s] \in Sending /\ (gen[s] = "error" => MayEnd(s))
  \/ gen[s] \in {"next", "unwinding", "close", "delta", "complete"}
  \/ request[s] = "background" /\ MayRelease(s, Becomes(s, "answered"))

\* A request that waits or whose lease is not released can go on.
NeverStuck ==
  \A s \in Streams :
    request[s] \in {"waiting", "granted", "streaming", "background"}
      \/ lease[s] = "held" => MayGoOn(s)

LEMMA AllGoOn ==
  ASSUME IInv, Queue
  PROVE  NeverStuck
<1> SUFFICES ASSUME NEW s \in Streams,
                    request[s] \in {"waiting", "granted", "streaming", "background"}
                      \/ lease[s] = "held"
             PROVE  MayGoOn(s)
  BY DEF NeverStuck
<1>1. /\ permits \in Nat /\ permits + 1 \in Nat /\ 1 \in Nat /\ Types
      /\ arrivals \in Seq(Streams) /\ IsFiniteSet(With(request, "waiting"))
  BY DEF IInv, Counted, Types
<1>2. ASSUME NEW n \in Nat, NEW free \in Nat, NEW r \in Requests \ {"waiting"}
      PROVE  MayGrant(n, free, Becomes(s, r))
  <2>1. With(Becomes(s, r), "waiting") \subseteq With(request, "waiting")
    BY <1>1 DEF With, Becomes, Types
  <2>2. \A t \in With(request, "waiting") : \E i \in DOMAIN arrivals : arrivals[i] = t
    BY DEF Queue, With
  <2>3. IsFiniteSet(With(Becomes(s, r), "waiting"))
    BY <1>1, <2>1, FS_Subset
  <2> QED BY <1>1, <2>1, <2>2, <2>3, SomeAreServed
<1>3. {"refused", "background", "answered", "streaming"} \subseteq Requests \ {"waiting"}
  BY DEF Requests
<1>4. CASE request[s] \in {"waiting", "granted"}
  BY <1>1, <1>2, <1>3, <1>4 DEF MayGoOn
<1>5. CASE request[s] = "background"
  BY <1>1, <1>2, <1>3, <1>5 DEF MayGoOn, MayRelease
<1>6. CASE request[s] = "streaming"
  <2>1. MayEnd(s)
    BY <1>1, <1>2, <1>3 DEF MayEnd, MayRelease
  <2>2. gen[s] \in Live
    BY <1>6 DEF IInv, Linked, LinkedOne
  <2> QED BY <2>1, <2>2 DEF Live, Sending, Awaiting, MayGoOn
<1>7. lease[s] = "held" => request[s] \in {"streaming", "background"}
  BY DEF IInv, Linked, LinkedOne, Types, Requests
<1> QED BY <1>4, <1>5, <1>6, <1>7

\* For any number of requests and permits, a request that waits, and one that
\* holds a permit, can go on: no state of the queue leaves a permit that comes
\* back, a timeout or a wake-up without a way to serve the waiters.
THEOREM NoDeadlock == Spec => []NeverStuck
BY InOrder, AllGoOn, Invariant, PTL
=============================================================================
