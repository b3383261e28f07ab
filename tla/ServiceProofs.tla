----------------------------- MODULE ServiceProofs -----------------------------
(***************************************************************************)
(* Proofs about the service loop, its workers and its clients, for any     *)
(* number of connections, worker slots and pending admissions.             *)
(***************************************************************************)
EXTENDS Service, FiniteSetTheorems, SequenceTheorems, TLAPS

(* A connection the loop answers for: it waits in the listener or among    *)
(* the pending admissions, or the loop has it in hand.                     *)
Held(c) == In(c, backlog) \/ In(c, pending) \/ cur = c

Distinct(s) == \A i, j \in 1 .. Len(s) : s[i] = s[j] => i = j

Reserving == {"reserve", "reserve new"}

-----------------------------------------------------------------------------
(* The inductive invariant.                                                *)

Messages == {"Accepted", "Rejected", "Completed"}

Types ==
    /\ DOMAIN pc = Clients /\ DOMAIN req = Clients
    /\ resp \in [Clients -> Seq(Messages)]
    /\ cur \in Clients \cup {None} /\ index \in Nat \ {0}
    /\ backlog \in Seq(Clients) /\ pending \in Seq(Clients)
    /\ active \in Nat /\ done \in Nat /\ faults \in Nat
    /\ DOMAIN worker = Clients

(* The loop holds a connection once. *)
Queues ==
    /\ Distinct(backlog) /\ Distinct(pending)
    /\ \A c \in Clients : ~(In(c, backlog) /\ In(c, pending))
    /\ cur # None => ~In(cur, backlog) /\ ~In(cur, pending)
    /\ at \in Reserving \cup {"admit"} <=> cur # None

(* A connection that is held, or that does not exist yet, has no worker    *)
(* and no answer.                                                          *)
Fresh ==
    \A c \in Clients :
        /\ Held(c) => pc[c] # "start" /\ worker[c] = "none" /\ resp[c] = <<>>
        /\ pc[c] = "start" => worker[c] = "none" /\ resp[c] = <<>>

(* Only a request that has arrived whole gets a worker, and one without a  *)
(* worker has no answer but a rejection.                                   *)
Answers ==
    \A c \in Clients :
        /\ worker[c] = "none" => c \notin ran /\ resp[c] \in {<<>>, <<"Rejected">>}
        /\ worker[c] # "none" => req[c] = "whole" /\ ~In("Rejected", resp[c])
        /\ at \in Reserving /\ cur = c => req[c] = "whole"

(* The request of a client that gave up before the last byte is not whole. *)
Unsent ==
    \A c \in Clients :
        /\ pc[c] = "start" => req[c] = "none"
        /\ pc[c] = "connected" /\ c \notin Strangers => req[c] = "none"
        /\ pc[c] \in {"writing", "absent", "unsent"} => req[c] # "whole"

SlotsInv == SlotsAccounted /\ (at \in Reserving => active < MaxActive)

(* Until the loop next receives, the byte for a completion is on its way.  *)
Waking == at # "drain" /\ done > 0 => wake \/ Workers({"wake"}) # {}

(* serve_until returns without a fault only after the drain. *)
Drained == ShutdownDrains /\ (at = "returned" => faults > 0 \/ overdue \/ active = 0)

(* Work since idle_since is still there, or this turn has seen it end. *)
Idling ==
    Listening /\ ~closed /\ busied
        => \/ active > 0 \/ pending # <<>>
           \/ progressed /\ at \notin {"drain", "wait"}

Inv ==
    Types /\ Queues /\ Fresh /\ Answers /\ Unsent /\ SlotsInv /\ Waking /\ Drained /\ Idling

-----------------------------------------------------------------------------
(* The queues.                                                             *)

(* A sequence one longer. *)
LEMMA AppendFacts ==
    ASSUME NEW S, NEW s \in Seq(S), NEW d \in S
    PROVE  /\ Append(s, d) \in Seq(S) /\ Len(Append(s, d)) = Len(s) + 1
           /\ \A c : In(c, Append(s, d)) <=> In(c, s) \/ c = d
           /\ Distinct(s) /\ ~In(d, s) => Distinct(Append(s, d))
<1>1. /\ Append(s, d) \in Seq(S) /\ Len(Append(s, d)) = Len(s) + 1 /\ Len(s) \in Nat
      /\ \A i \in 1 .. Len(s) : Append(s, d)[i] = s[i]
      /\ Append(s, d)[Len(s) + 1] = d
  BY AppendProperties, LenProperties
<1>2. ASSUME NEW c, In(c, Append(s, d)) PROVE In(c, s) \/ c = d
  BY <1>1, <1>2 DEF In
<1>3. ASSUME NEW c, In(c, s) \/ c = d PROVE In(c, Append(s, d))
  BY <1>1, <1>3 DEF In
<1>4. ASSUME Distinct(s), ~In(d, s) PROVE Distinct(Append(s, d))
  BY <1>1, <1>4 DEF In, Distinct
<1> QED
  BY <1>1, <1>2, <1>3, <1>4

(* A sequence without its first element. *)
LEMMA TailFacts ==
    ASSUME NEW S, NEW s \in Seq(S), s # <<>>
    PROVE  /\ Head(s) \in S /\ In(Head(s), s)
           /\ Tail(s) \in Seq(S) /\ Len(Tail(s)) = Len(s) - 1
           /\ \A c : In(c, Tail(s)) => In(c, s)
           /\ Distinct(s) => Distinct(Tail(s)) /\ ~In(Head(s), Tail(s))
<1>1. /\ Tail(s) \in Seq(S) /\ Len(Tail(s)) = Len(s) - 1 /\ Len(s) \in Nat \ {0}
      /\ \A i \in 1 .. Len(Tail(s)) : Tail(s)[i] = s[i + 1]
      /\ Head(s) = s[1] /\ Head(s) \in S
  BY HeadTailProperties, LenProperties, EmptySeq
<1>2. In(Head(s), s)
  BY <1>1 DEF In
<1>3. ASSUME NEW c, In(c, Tail(s)) PROVE In(c, s)
  BY <1>1, <1>3 DEF In
<1>4. ASSUME Distinct(s) PROVE Distinct(Tail(s)) /\ ~In(Head(s), Tail(s))
  BY <1>1, <1>4 DEF In, Distinct
<1> QED
  BY <1>1, <1>2, <1>3, <1>4

(* pending.remove(index) *)
LEMMA WithoutFacts ==
    ASSUME NEW S, NEW s \in Seq(S), NEW i \in 1 .. Len(s)
    PROVE  /\ s[i] \in S /\ In(s[i], s)
           /\ Without(s, i) \in Seq(S) /\ Len(Without(s, i)) = Len(s) - 1
           /\ \A c : In(c, Without(s, i)) => In(c, s)
           /\ Distinct(s) => Distinct(Without(s, i)) /\ ~In(s[i], Without(s, i))
<1> DEFINE a == SubSeq(s, 1, i - 1)
           b == SubSeq(s, i + 1, Len(s))
           t == a \o b
<1>1. Len(s) \in Nat /\ i \in Nat /\ 1 <= i /\ i <= Len(s) /\ s[i] \in S
  BY LenProperties, ElementOfSeq
<1>2. a \in Seq(S) /\ Len(a) = i - 1 /\ \A k \in 1 .. i - 1 : a[k] = s[k]
  BY <1>1, SubSeqProperties
<1>3. b \in Seq(S) /\ Len(b) = Len(s) - i /\ \A k \in 1 .. Len(s) - i : b[k] = s[i + k]
  BY <1>1, SubSeqProperties
<1>4. /\ t \in Seq(S) /\ Len(t) = Len(s) - 1
      /\ \A k \in 1 .. Len(s) - 1 : t[k] = IF k < i THEN s[k] ELSE s[k + 1]
  <2> HIDE DEF a, b
  <2>1. /\ t \in Seq(S) /\ Len(t) = Len(a) + Len(b)
        /\ \A k \in 1 .. Len(a) + Len(b) : t[k] = IF k <= Len(a) THEN a[k] ELSE b[k - Len(a)]
    BY <1>2, <1>3, ConcatProperties
  <2> HIDE DEF t
  <2>2. Len(a) + Len(b) = Len(s) - 1
    BY <1>1, <1>2, <1>3
  <2>3. ASSUME NEW k \in 1 .. Len(s) - 1 PROVE t[k] = IF k < i THEN s[k] ELSE s[k + 1]
    <3>1. CASE k < i
      BY <1>1, <1>2, <2>1, <2>2, <3>1
    <3>2. CASE ~(k < i)
      <4>1. k - (i - 1) \in 1 .. Len(s) - i /\ i + (k - (i - 1)) = k + 1
        BY <1>1, <3>2
      <4>2. t[k] = b[k - (i - 1)]
        BY <1>1, <1>2, <2>1, <2>2, <3>2
      <4>3. b[k - (i - 1)] = s[i + (k - (i - 1))]
        BY <1>3, <4>1
      <4> QED
        BY <3>2, <4>1, <4>2, <4>3
    <3> QED
      BY <3>1, <3>2
  <2> QED
    BY <2>1, <2>2, <2>3
<1>5. Without(s, i) = t
  BY DEF Without
<1> HIDE DEF t
<1>6. In(s[i], s)
  BY <1>1 DEF In
<1>7. ASSUME NEW c, In(c, t) PROVE In(c, s)
  BY <1>1, <1>4, <1>7 DEF In
<1>8. ASSUME Distinct(s) PROVE Distinct(t) /\ ~In(s[i], t)
  <2>1. Distinct(t)
    BY <1>1, <1>4, <1>8 DEF Distinct
  <2>2. ~In(s[i], t)
    BY <1>1, <1>4, <1>8 DEF In, Distinct
  <2> QED
    BY <2>1, <2>2
<1> QED
  BY <1>1, <1>4, <1>5, <1>6, <1>7, <1>8

-----------------------------------------------------------------------------
(* Steps of a client.                                                      *)

(* What every step of client c does to the connections: it moves c on,     *)
(* reads or drops answers, and adds to a request that is not whole yet.    *)
ClientMoves(c) ==
    /\ DOMAIN pc' = Clients /\ DOMAIN req' = Clients /\ resp' \in [Clients -> Seq(Messages)]
    /\ \A d \in Clients \ {c} : pc'[d] = pc[d] /\ req'[d] = req[d] /\ resp'[d] = resp[d]
    /\ pc'[c] # "start"
    /\ \/ resp'[c] = resp[c]
       \/ resp'[c] = <<>>
       \/ resp[c] # <<>> /\ Head(resp[c]) = "Accepted" /\ resp'[c] = Tail(resp[c])
    /\ req[c] = "whole" => req'[c] = "whole"
    /\ pc'[c] = "connected" /\ c \notin Strangers => req'[c] = "none"
    /\ pc'[c] \in {"writing", "absent", "unsent"} => req'[c] # "whole"

(* Nothing the loop or a worker keeps is changed by a client. *)
LEMMA ClientLeavesLoop ==
    ASSUME Inv, ClientOnly
    PROVE  SlotsInv' /\ Waking' /\ Drained' /\ Idling'
<1>1. \A S : Workers(S)' = Workers(S)
  BY DEF ClientOnly, threads, Workers
<1>2. UNCHANGED <<at, pending, active, progressed, done, wake, closed, overdue, busied, faults>>
  BY DEF ClientOnly, threads, stop
<1> QED
  BY <1>1, <1>2
     DEF Inv, SlotsInv, SlotsAccounted, Waking, Drained, ShutdownDrains, Idling, Listening

(* What has been read of an answer holds no rejection that was not there.  *)
LEMMA ReadKeepsAnswers ==
    ASSUME Inv, NEW c \in Clients, ClientMoves(c)
    PROVE  /\ worker[c] = "none" => resp'[c] \in {<<>>, <<"Rejected">>}
           /\ In("Rejected", resp'[c]) => In("Rejected", resp[c])
           /\ resp[c] = <<>> => resp'[c] = <<>>
<1>1. resp[c] \in Seq(Messages)
  BY DEF Inv, Types
<1>2. ~In("Rejected", <<>>)
  BY DEF In
<1>3. CASE resp'[c] = resp[c] \/ resp'[c] = <<>>
  BY <1>2, <1>3 DEF Inv, Answers
<1>4. CASE resp[c] # <<>> /\ Head(resp[c]) = "Accepted" /\ resp'[c] = Tail(resp[c])
  <2>1. worker[c] # "none"
    <3>1. resp[c] # <<"Rejected">>
      BY <1>4
    <3> QED
      BY <1>4, <3>1 DEF Inv, Answers
  <2>2. In("Rejected", Tail(resp[c])) => In("Rejected", resp[c])
    BY <1>1, <1>4, TailFacts
  <2> QED
    BY <1>4, <2>1, <2>2
<1> QED
  BY <1>3, <1>4 DEF ClientMoves

(* A step of a client keeps the invariant: Connect adds c to the backlog,  *)
(* the others leave the queues alone.                                      *)
LEMMA ClientKeepsInv ==
    ASSUME Inv, NEW c \in Clients, ClientMoves(c), ClientOnly,
           backlog' = backlog \/ (pc[c] = "start" /\ backlog' = Append(backlog, c))
    PROVE  Inv'
<1>1. UNCHANGED <<at, cur, index, pending, active, done, faults, worker, ran>>
  BY DEF ClientOnly, threads
<1>2. /\ backlog' \in Seq(Clients)
      /\ \A d \in Clients : In(d, backlog') => In(d, backlog) \/ (d = c /\ pc[c] = "start")
      /\ Distinct(backlog')
  <2>1. CASE backlog' = backlog
    BY <2>1 DEF Inv, Types, Queues
  <2>2. CASE pc[c] = "start" /\ backlog' = Append(backlog, c)
    <3>1. ~In(c, backlog)
      BY <2>2 DEF Inv, Fresh, Held
    <3> QED
      BY <2>2, <3>1, AppendFacts DEF Inv, Types, Queues
  <2> QED
    BY <2>1, <2>2
<1>3. Types'
  BY <1>1, <1>2 DEF Inv, Types, ClientMoves
<1>4. \A d \in Clients : Held(d)' => Held(d) \/ (d = c /\ pc[c] = "start" /\ ~Held(c))
  BY <1>1, <1>2 DEF Held, Inv, Fresh
<1>5. Queues'
  <2>0. pc[c] = "start" => ~In(c, pending) /\ cur # c
    BY DEF Inv, Fresh, Held
  <2>1. \A d \in Clients : ~(In(d, backlog') /\ In(d, pending))
    BY <1>2, <2>0 DEF Inv, Queues
  <2>2. cur # None => ~In(cur, backlog')
    BY <1>2, <2>0 DEF Inv, Queues, Types
  <2> QED
    BY <1>1, <1>2, <2>1, <2>2 DEF Inv, Queues
<1>6. Fresh'
  <2>1. ASSUME NEW d \in Clients, d # c PROVE Fresh!(d)'
    BY <1>1, <1>4, <2>1 DEF Inv, Fresh, ClientMoves
  <2>2. Fresh!(c)'
    BY <1>1, <1>4, ReadKeepsAnswers DEF Inv, Fresh, ClientMoves
  <2> QED
    BY <2>1, <2>2 DEF Fresh
<1>7. Answers'
  <2>1. ASSUME NEW d \in Clients, d # c PROVE Answers!(d)'
    BY <1>1, <2>1 DEF Inv, Answers, ClientMoves
  <2>2. Answers!(c)'
    BY <1>1, ReadKeepsAnswers DEF Inv, Answers, ClientMoves
  <2> QED
    BY <2>1, <2>2 DEF Answers
<1>8. Unsent'
  BY DEF Inv, Unsent, ClientMoves
<1> QED
  BY <1>3, <1>5, <1>6, <1>7, <1>8, ClientLeavesLoop DEF Inv

(* Become: a client moves on, and one that is done drops its answers. *)
LEMMA BecomeFacts ==
    ASSUME Inv, NEW c \in Clients, NEW p, Become(c, p)
    PROVE  /\ DOMAIN pc' = Clients /\ resp' \in [Clients -> Seq(Messages)]
           /\ \A d \in Clients \ {c} : pc'[d] = pc[d] /\ resp'[d] = resp[d]
           /\ pc'[c] = p
           /\ resp'[c] = resp[c] \/ resp'[c] = <<>>
<1>1. pc' = [pc EXCEPT ![c] = p] /\ (resp' = resp \/ resp' = [resp EXCEPT ![c] = <<>>])
  BY DEF Become
<1>2. <<>> \in Seq(Messages)
  BY EmptySeq
<1> QED
  BY <1>1, <1>2 DEF Inv, Types

(* A client that moves on without writing. *)
LEMMA BecomeMoves ==
    ASSUME Inv, NEW c \in Clients, NEW p, Become(c, p), UNCHANGED req, p # "start",
           p = "connected" /\ c \notin Strangers => req[c] = "none",
           p \in {"writing", "absent", "unsent"} => req[c] # "whole"
    PROVE  ClientMoves(c)
BY BecomeFacts DEF ClientMoves, Inv, Types

(* Every step of a client keeps the invariant. *)
LEMMA ClientStepKeepsInv ==
    ASSUME Inv, NEW c \in Clients, ClientStep(c)
    PROVE  Inv'
<1>1. CASE Connect(c)
  <2>1. PICK p \in {"connected", "absent", "failed"} : Become(c, p)
    BY <1>1 DEF Connect
  <2>2. pc[c] = "start" /\ UNCHANGED req /\ req[c] = "none"
    BY <1>1 DEF Connect, Inv, Unsent
  <2>3. ClientMoves(c)
    BY <2>1, <2>2, BecomeMoves
  <2> QED
    BY <1>1, <2>3, ClientKeepsInv DEF Connect
<1>2. CASE BeginExchange(c)
  <2>1. PICK p \in {"writing", "absent", "unsent", "failed"} : Become(c, p)
    BY <1>2 DEF BeginExchange
  <2>2. UNCHANGED req /\ req[c] = "none"
    BY <1>2 DEF BeginExchange, Inv, Unsent
  <2>3. ClientMoves(c)
    BY <2>1, <2>2, BecomeMoves
  <2> QED
    BY <1>2, <2>3, ClientKeepsInv DEF BeginExchange
<1>3. CASE WriteRequest(c)
  <2>1. req[c] # "whole"
    BY <1>3 DEF WriteRequest, Inv, Unsent
  <2>2. CASE UNCHANGED req
    <3>1. PICK p \in {"unsent", "failed", "writing", "written"} : Become(c, p)
      BY <1>3 DEF WriteRequest
    <3> QED
      BY <1>3, <2>1, <2>2, <3>1, BecomeMoves, ClientKeepsInv DEF WriteRequest
  <2>3. ASSUME NEW r \in {"part", "whole"}, req' = [req EXCEPT ![c] = r],
               Become(c, IF r = "whole" THEN "written" ELSE "writing")
        PROVE  Inv'
    <3>1. DOMAIN req' = Clients /\ req'[c] = r /\ \A d \in Clients \ {c} : req'[d] = req[d]
      BY <2>3 DEF Inv, Types
    <3>2. ClientMoves(c)
      BY <2>1, <2>3, <3>1, BecomeFacts DEF ClientMoves
    <3> QED
      BY <1>3, <3>2, ClientKeepsInv DEF WriteRequest
  <2> QED
    BY <1>3, <2>2, <2>3 DEF WriteRequest
<1>4. CASE FinishWrite(c)
  <2>1. PICK p \in {"reading", "late"} : Become(c, p)
    BY <1>4 DEF FinishWrite
  <2> QED
    BY <1>4, <2>1, BecomeMoves, ClientKeepsInv DEF FinishWrite
<1>5. CASE ReadResponse(c)
  <2>1. CASE Become(c, "failed")
    BY <1>5, <2>1, BecomeMoves, ClientKeepsInv DEF ReadResponse
  <2>2. CASE resp[c] # <<>> /\ Head(resp[c]) = "Accepted" /\ ReadOn(c, "waiting")
    <3>1. Tail(resp[c]) \in Seq(Messages)
      BY <2>2, TailFacts DEF Inv, Types
    <3>2. /\ DOMAIN pc' = Clients /\ pc'[c] = "waiting"
          /\ resp' \in [Clients -> Seq(Messages)] /\ resp'[c] = Tail(resp[c])
          /\ \A d \in Clients \ {c} : pc'[d] = pc[d] /\ resp'[d] = resp[d]
      BY <2>2, <3>1 DEF ReadOn, Inv, Types
    <3>3. ClientMoves(c)
      BY <1>5, <2>2, <3>2 DEF ReadResponse, ClientMoves, Inv, Types
    <3> QED
      BY <1>5, <3>3, ClientKeepsInv DEF ReadResponse
  <2> QED
    BY <1>5, <2>1, <2>2 DEF ReadResponse
<1>6. CASE ReadCompletion(c)
  <2>1. PICK p \in {"completed", "failed"} : Become(c, p)
    BY <1>6 DEF ReadCompletion
  <2> QED
    BY <1>6, <2>1, BecomeMoves, ClientKeepsInv DEF ReadCompletion
<1>7. CASE StrangerWrites(c)
  <2>1. PICK r : req' = [req EXCEPT ![c] = r] /\ req[c] # "whole"
    BY <1>7 DEF StrangerWrites
  <2>2. DOMAIN req' = Clients /\ \A d \in Clients \ {c} : req'[d] = req[d]
    BY <2>1 DEF Inv, Types
  <2>3. ClientMoves(c)
    BY <1>7, <2>1, <2>2 DEF StrangerWrites, ClientMoves, Inv, Types
  <2> QED
    BY <1>7, <2>3, ClientKeepsInv DEF StrangerWrites
<1>8. CASE ClientGone(c)
  <2>1. Become(c, "gone") /\ UNCHANGED req
    BY <1>8 DEF ClientGone
  <2> QED
    BY <1>8, <2>1, BecomeMoves, ClientKeepsInv DEF ClientGone
<1> QED
  BY <1>1, <1>2, <1>3, <1>4, <1>5, <1>6, <1>7, <1>8 DEF ClientStep

-----------------------------------------------------------------------------
(* Steps of a worker.                                                      *)

(* The set of running workers is finite, so it can be counted. *)
LEMMA RunningFinite ==
    /\ IsFiniteSet(Workers(Running)) /\ Cardinality(Workers(Running)) \in Nat
    /\ Cardinality(Workers(Running)) = 0 <=> Workers(Running) = {}
<1>1. Workers(Running) \in SUBSET Clients /\ IsFiniteSet(Clients)
  BY ServiceAssumption DEF Workers
<1>2. IsFiniteSet(Workers(Running))
  BY <1>1, FS_Subset
<1> QED
  BY <1>2, FS_CardinalityType, FS_EmptySet

(* What every step of a worker does: it goes from one of its steps to      *)
(* another and may answer, with anything but a rejection.                  *)
WorkerMoves(c) ==
    /\ DOMAIN worker' = Clients /\ resp' \in [Clients -> Seq(Messages)]
    /\ \A d \in Clients \ {c} : worker'[d] = worker[d] /\ resp'[d] = resp[d]
    /\ worker[c] # "none" /\ worker'[c] \notin {"none", "killed"}
    /\ \/ resp'[c] = resp[c]
       \/ \E m \in {"Accepted", "Completed"} : resp'[c] = Append(resp[c], m)
    /\ ran' \subseteq ran \cup {c}

(* A step of a worker keeps the invariant if it keeps the slots accounted  *)
(* for and the loop awake.                                                 *)
LEMMA WorkerKeepsInv ==
    ASSUME Inv, NEW c \in Clients, WorkerMoves(c), WorkerOnly, done' \in Nat,
           SlotsAccounted', Waking'
    PROVE  Inv'
<1>1. UNCHANGED <<pc, req, at, cur, index, backlog, pending, active, progressed,
                  closed, overdue, busied, faults>>
  BY DEF WorkerOnly, client, loop, stop
<1>2. Types'
  BY <1>1 DEF Inv, Types, WorkerMoves
<1>3. Queues'
  BY <1>1 DEF Inv, Queues
<1>4. \A d \in Clients : Held(d)' <=> Held(d)
  BY <1>1 DEF Held
<1>5. ~Held(c) /\ pc[c] # "start"
  BY DEF Inv, Fresh, WorkerMoves
<1>6. Fresh'
  BY <1>1, <1>4, <1>5 DEF Inv, Fresh, WorkerMoves
<1>7. Answers'
  <2>1. ASSUME NEW d \in Clients, d # c PROVE Answers!(d)'
    BY <1>1, <2>1 DEF Inv, Answers, WorkerMoves
  <2>2. ~In("Rejected", resp'[c])
    <3>1. ~In("Rejected", resp[c]) /\ resp[c] \in Seq(Messages)
      BY DEF Inv, Answers, Types, WorkerMoves
    <3>2. ASSUME NEW m \in {"Accepted", "Completed"}
          PROVE  ~In("Rejected", Append(resp[c], m))
      <4>1. m \in Messages /\ m # "Rejected"
        BY DEF Messages
      <4> QED
        BY <3>1, <4>1, AppendFacts
    <3> QED
      BY <3>1, <3>2 DEF WorkerMoves
  <2>3. Answers!(c)'
    BY <1>1, <1>5, <2>2 DEF Inv, Answers, WorkerMoves, Held
  <2> QED
    BY <2>1, <2>3 DEF Answers
<1>8. Unsent'
  BY <1>1 DEF Inv, Unsent
<1>9. Drained'
  <2>1. Workers({"killed"})' \subseteq Workers({"killed"})
    BY DEF Workers, WorkerMoves
  <2> QED
    BY <1>1, <2>1 DEF Inv, Drained, ShutdownDrains
<1>10. Idling'
  BY <1>1 DEF Inv, Idling, Listening
<1> QED
  BY <1>1, <1>2, <1>3, <1>6, <1>7, <1>8, <1>9, <1>10 DEF Inv, SlotsInv

(* WorkerTo, with or without an answer. *)
LEMMA WorkerToMoves ==
    ASSUME Inv, NEW c \in Clients, NEW s, WorkerTo(c, s), worker[c] # "none",
           s \notin {"none", "killed"}, ran' \subseteq ran \cup {c},
           \/ UNCHANGED resp
           \/ \E m \in {"Accepted", "Completed"} : resp' = [resp EXCEPT ![c] = Append(@, m)]
    PROVE  /\ WorkerMoves(c)
           /\ worker'[c] = s /\ \A d \in Clients \ {c} : worker'[d] = worker[d]
<1>1. /\ DOMAIN worker' = Clients /\ worker'[c] = s
      /\ \A d \in Clients \ {c} : worker'[d] = worker[d]
  BY DEF WorkerTo, Inv, Types
<1>2. CASE UNCHANGED resp
  BY <1>1, <1>2 DEF WorkerMoves, Inv, Types
<1>3. ASSUME NEW m \in {"Accepted", "Completed"}, resp' = [resp EXCEPT ![c] = Append(@, m)]
      PROVE  WorkerMoves(c)
  <2>1. Append(resp[c], m) \in Seq(Messages)
    BY AppendProperties DEF Inv, Types, Messages
  <2>2. /\ resp' \in [Clients -> Seq(Messages)] /\ resp'[c] = Append(resp[c], m)
        /\ \A d \in Clients \ {c} : resp'[d] = resp[d]
    BY <1>3, <2>1 DEF Inv, Types
  <2> QED
    BY <1>1, <2>2 DEF WorkerMoves
<1> QED
  BY <1>1, <1>2, <1>3

(* A worker that keeps its slot. *)
LEMMA WorkerKeepsSlot ==
    ASSUME Inv, NEW c \in Clients, NEW s, WorkerTo(c, s), WorkerMoves(c), WorkerOnly,
           worker[c] \in Running, s \in Running, UNCHANGED <<done, wake>>
    PROVE  Inv'
<1>1. /\ worker'[c] = s /\ \A d \in Clients \ {c} : worker'[d] = worker[d]
  BY DEF WorkerTo, Inv, Types
<1>2. UNCHANGED <<at, pending, active>>
  BY DEF WorkerOnly, loop
<1>3. Workers(Running)' = Workers(Running)
  BY <1>1 DEF Workers
<1>4. SlotsAccounted'
  BY <1>2, <1>3 DEF Inv, SlotsInv, SlotsAccounted
<1>5. Workers({"wake"})' = Workers({"wake"})
  BY <1>1 DEF Workers, Running, Serving
<1>6. Waking'
  BY <1>2, <1>5 DEF Inv, Waking
<1> QED
  BY <1>4, <1>6, WorkerKeepsInv DEF Inv, Types

(* Every step of a worker keeps the invariant. *)
LEMMA WorkerStepKeepsInv ==
    ASSUME Inv, NEW c \in Clients, WorkerStep(c)
    PROVE  Inv'
<1>1. CASE SendAccepted(c)
  <2>1. PICK s \in {"handle", "send"} : WorkerTo(c, s)
    BY <1>1 DEF SendAccepted
  <2>2. WorkerMoves(c)
    BY <1>1, <2>1, WorkerToMoves DEF SendAccepted
  <2> QED
    BY <1>1, <2>1, <2>2, WorkerKeepsSlot DEF SendAccepted, Running, Serving
<1>2. CASE RunHandler(c)
  BY <1>2, WorkerToMoves, WorkerKeepsSlot DEF RunHandler, Running, Serving
<1>3. CASE SendCompleted(c)
  BY <1>3, WorkerToMoves, WorkerKeepsSlot DEF SendCompleted, Running, Serving
<1>4. CASE ReleaseSlot(c)
  <2>1. /\ WorkerMoves(c) /\ worker[c] = "send" /\ worker'[c] = "wake" /\ done' = done + 1
        /\ \A d \in Clients \ {c} : worker'[d] = worker[d]
    BY <1>4, WorkerToMoves DEF ReleaseSlot
  <2>2. UNCHANGED <<at, pending, active>>
    BY <1>4 DEF ReleaseSlot, WorkerOnly, loop
  <2>3. Workers(Running)' = Workers(Running) \ {c} /\ c \in Workers(Running)
    BY <2>1 DEF Workers, Running, Serving
  <2>4. Cardinality(Workers(Running)') = Cardinality(Workers(Running)) - 1
    BY <2>3, RunningFinite, FS_RemoveElement
  <2>5. SlotsAccounted'
    BY <2>1, <2>2, <2>4, RunningFinite DEF Inv, SlotsInv, SlotsAccounted, Types
  <2>6. Waking'
    BY <2>1 DEF Waking, Workers
  <2> QED
    BY <1>4, <2>1, <2>5, <2>6, WorkerKeepsInv DEF ReleaseSlot, Inv, Types
<1>5. CASE WakeLoop(c)
  <2>1. /\ WorkerMoves(c) /\ worker[c] = "wake" /\ worker'[c] = "ended" /\ done' = done
        /\ \A d \in Clients \ {c} : worker'[d] = worker[d]
    BY <1>5, WorkerToMoves DEF WakeLoop
  <2>2. UNCHANGED <<at, pending, active>>
    BY <1>5 DEF WakeLoop, WorkerOnly, loop
  <2>3. Workers(Running)' = Workers(Running)
    BY <2>1 DEF Workers, Running, Serving
  <2>4. SlotsAccounted'
    BY <2>1, <2>2, <2>3 DEF Inv, SlotsInv, SlotsAccounted
  <2>5. Waking'
    BY <1>5 DEF Waking, WakeLoop
  <2> QED
    BY <1>5, <2>1, <2>4, <2>5, WorkerKeepsInv DEF WakeLoop, Inv, Types
<1> QED
  BY <1>1, <1>2, <1>3, <1>4, <1>5 DEF WorkerStep

-----------------------------------------------------------------------------
(* Steps of the loop.                                                      *)

(* A connection stays as it is, or the loop lets go of it: with a          *)
(* rejection or without a word, or for a worker if its request is whole.   *)
LetsGo(c) ==
    \/ worker'[c] = worker[c] /\ resp'[c] = resp[c]
    \/ /\ Held(c) /\ ~Held(c)'
       /\ \/ worker'[c] = worker[c] /\ resp'[c] \in {<<>>, <<"Rejected">>}
          \/ worker'[c] = "accept" /\ resp'[c] = resp[c] /\ req[c] = "whole"

(* The part of the invariant about connections, for any step that only     *)
(* moves and releases what the loop holds.                                 *)
LEMMA LoopKeepsConnections ==
    ASSUME Inv, UNCHANGED <<pc, req, ran>>,
           \A c \in Clients : (Held(c)' => Held(c)) /\ LetsGo(c),
           at' \in Reserving => req[cur'] = "whole"
    PROVE  Fresh' /\ Answers' /\ Unsent'
<1>1. Fresh'
  BY DEF Inv, Fresh, LetsGo
<1>2. Answers'
  <2> SUFFICES ASSUME NEW c \in Clients PROVE Answers!(c)'
    BY DEF Answers
  <2>1. ~In("Rejected", <<>>)
    BY DEF In
  <2>2. Held(c) => worker[c] = "none" /\ resp[c] = <<>>
    BY DEF Inv, Fresh
  <2>3. worker'[c] = "none" => c \notin ran' /\ resp'[c] \in {<<>>, <<"Rejected">>}
    BY <2>2 DEF Inv, Answers, LetsGo
  <2>4. worker'[c] # "none" => req'[c] = "whole" /\ ~In("Rejected", resp'[c])
    BY <2>1, <2>2 DEF Inv, Answers, LetsGo
  <2> QED
    BY <2>3, <2>4
<1>3. Unsent'
  BY DEF Inv, Unsent
<1> QED
  BY <1>1, <1>2, <1>3

(* reject_bounded, for a connection the loop holds. *)
LEMMA RejectFacts ==
    ASSUME Inv, NEW c \in Clients, Held(c), RejectBounded(c)
    PROVE  /\ resp' \in [Clients -> Seq(Messages)]
           /\ resp'[c] \in {<<>>, <<"Rejected">>}
           /\ \A d \in Clients \ {c} : resp'[d] = resp[d]
<1>1. resp[c] = <<>>
  BY DEF Inv, Fresh
<1>2. CASE ~ClientOpen(c)
  BY <1>1, <1>2 DEF RejectBounded, Inv, Types
<1>3. CASE ClientOpen(c)
  <2>1. Append(<<>>, "Rejected") = <<"Rejected">> /\ <<"Rejected">> \in Seq(Messages)
    BY DEF Messages
  <2>2. resp' = [resp EXCEPT ![c] = <<"Rejected">>]
    BY <1>1, <1>3, <2>1 DEF RejectBounded, Inv, Types
  <2> QED
    BY <2>1, <2>2 DEF Inv, Types
<1> QED
  BY <1>2, <1>3

(* The part of the invariant about slots, wakeups and shutdown, for a step *)
(* that starts no worker and receives no completion.                       *)
LEMMA LoopKeepsSlots ==
    ASSUME Inv, UNCHANGED <<worker, done, active, overdue, faults>>,
           at # "exited", Len(pending') <= MaxPending,
           at' \in Reserving => active < MaxActive,
           at' # "drain" => at # "drain" /\ wake' = wake,
           at' = "returned" => overdue \/ active = 0
    PROVE  SlotsInv' /\ Waking' /\ Drained'
<1>1. \A S : Workers(S)' = Workers(S)
  BY DEF Workers
<1>2. SlotsInv'
  BY <1>1 DEF Inv, SlotsInv, SlotsAccounted
<1>3. Waking'
  BY <1>1 DEF Inv, Waking
<1>4. Drained'
  BY <1>1 DEF Inv, Drained, ShutdownDrains
<1> QED
  BY <1>2, <1>3, <1>4

(* A step that leaves every connection where it is. *)
LEMMA LoopKeepsQueues ==
    ASSUME Inv, LoopOnly, UNCHANGED <<cur, backlog, pending, resp, worker>>,
           cur = None, at' \notin Reserving \cup {"admit"},
           index' \in Nat \ {0}, active' \in Nat, done' \in Nat
    PROVE  Types' /\ Queues' /\ Fresh' /\ Answers' /\ Unsent'
<1>1. UNCHANGED <<pc, req, ran, faults>>
  BY DEF LoopOnly, client
<1>2. Types'
  BY <1>1 DEF Inv, Types
<1>3. Queues'
  BY <1>1 DEF Inv, Queues
<1>4. \A c \in Clients : (Held(c)' => Held(c)) /\ LetsGo(c)
  BY DEF Held, LetsGo
<1> QED
  BY <1>1, <1>2, <1>3, <1>4, LoopKeepsConnections

(* The loop has nothing in hand between one connection and the next. *)
LEMMA NothingInHand ==
    ASSUME Inv, at \notin Reserving \cup {"admit"}
    PROVE  cur = None
BY DEF Inv, Queues

LEMMA ReceiveKeepsInv ==
    ASSUME Inv, ReceiveCompletions
    PROVE  Inv'
<1>1. /\ at = "drain" /\ at' = "check" /\ active' = active - done /\ done' = 0
      /\ progressed' = (done > 0)
      /\ UNCHANGED <<cur, index, backlog, pending, resp, worker, wake, closed, busied>>
      /\ UNCHANGED <<overdue, faults>> /\ LoopOnly
  BY DEF ReceiveCompletions, LoopOnly
<1>2. active = Cardinality(Workers(Running)) + done /\ active <= MaxActive /\ Len(pending) <= MaxPending
  BY <1>1 DEF Inv, SlotsInv, SlotsAccounted
<1>3. active' \in Nat /\ done \in Nat /\ active \in Nat /\ active' <= active
  BY <1>1, <1>2, RunningFinite DEF Inv, Types
<1>4. Types' /\ Queues' /\ Fresh' /\ Answers' /\ Unsent'
  <2>1. cur = None /\ at' \notin Reserving \cup {"admit"}
    BY <1>1, NothingInHand DEF Reserving
  <2> QED
    BY <1>1, <1>3, <2>1, LoopKeepsQueues DEF Inv, Types
<1>5. \A S : Workers(S)' = Workers(S)
  BY <1>1 DEF Workers
<1>6. SlotsInv'
  <2>1. active' = Cardinality(Workers(Running)) + done' /\ active' <= MaxActive
    <3>1. active' = active - done /\ done' = 0 /\ MaxActive \in Nat
      BY <1>1, ServiceAssumption
    <3>2. Cardinality(Workers(Running)) \in Nat
      BY RunningFinite
    <3>3. active = Cardinality(Workers(Running)) + done /\ active <= MaxActive
      BY <1>2
    <3> QED
      BY <1>3, <3>1, <3>2, <3>3
  <2>2. Workers(Running)' = Workers(Running) /\ at' \notin Reserving
    BY <1>1, <1>5 DEF Reserving
  <2> QED
    BY <1>1, <1>2, <2>1, <2>2 DEF SlotsInv, SlotsAccounted
<1>7. Waking'
  BY <1>1 DEF Waking
<1>8. Drained'
  BY <1>1, <1>5 DEF Inv, Drained, ShutdownDrains
<1>9. Idling'
  <2>1. active > 0 => active' > 0 \/ progressed'
    <3>1. active' = active - done /\ (done > 0 => progressed')
      BY <1>1
    <3> QED
      BY <1>3, <3>1
  <2>2. Listening /\ ~closed /\ busied => active > 0 \/ pending # <<>>
    BY <1>1 DEF Inv, Idling
  <2>3. Listening /\ at' \notin {"drain", "wait"}
    BY <1>1 DEF Listening
  <2> QED
    BY <1>1, <2>1, <2>2, <2>3, Zenon DEF Idling
<1> QED
  BY <1>4, <1>6, <1>7, <1>8, <1>9 DEF Inv

LEMMA CheckKeepsInv ==
    ASSUME Inv, CheckShutdown
    PROVE  Inv'
<1>1. /\ at = "check" /\ at' \in {"poll", "returned", "drain"}
      /\ UNCHANGED <<cur, index, active, progressed, resp, worker, done, wake, closed, busied>>
      /\ UNCHANGED <<pc, req, ran, overdue, faults>> /\ LoopOnly
      /\ backlog' \in {backlog, <<>>} /\ pending' \in {pending, <<>>}
      /\ ~closed => pending' = pending
      /\ at' = "returned" => overdue \/ active = 0
  BY DEF CheckShutdown, LoopOnly, client
<1>2. cur = None /\ at \notin Reserving /\ at' \notin Reserving \cup {"admit"}
  BY <1>1, NothingInHand DEF Reserving
<1>3. /\ <<>> \in Seq(Clients) /\ Distinct(<<>>) /\ Len(<<>>) = 0
      /\ \A c \in Clients : ~In(c, <<>>)
  BY EmptySeq DEF Distinct, In
<1>4. \A c \in Clients : /\ In(c, backlog') => In(c, backlog)
                         /\ In(c, pending') => In(c, pending)
  BY <1>1, <1>3
<1>5. Types'
  BY <1>1, <1>3 DEF Inv, Types
<1>6. Queues'
  BY <1>1, <1>2, <1>3, <1>4 DEF Inv, Queues
<1>7. \A c \in Clients : (Held(c)' => Held(c)) /\ LetsGo(c)
  BY <1>1, <1>4 DEF Held, LetsGo
<1>8. Fresh' /\ Answers' /\ Unsent'
  BY <1>1, <1>2, <1>7, LoopKeepsConnections
<1>9. Len(pending') <= MaxPending
  <2>1. Len(pending) <= MaxPending /\ 0 <= MaxPending
    <3>1. at # "exited" /\ MaxPending \in Nat
      BY <1>1, ServiceAssumption
    <3> QED
      BY <3>1 DEF Inv, SlotsInv, SlotsAccounted
  <2> QED
    BY <1>1, <1>3, <2>1
<1>10. SlotsInv' /\ Waking' /\ Drained'
  BY <1>1, <1>2, <1>9, LoopKeepsSlots
<1>11. Idling'
  <2>1. Listening /\ at \notin {"drain", "wait"} /\ (~closed => at' = "poll")
    BY <1>1 DEF CheckShutdown, Listening
  <2>2. at' = "poll" => at' \notin {"drain", "wait"}
    OBVIOUS
  <2> QED
    BY <1>1, <2>1, <2>2, Zenon DEF Inv, Idling
<1> QED
  BY <1>5, <1>6, <1>8, <1>10, <1>11 DEF Inv

(* One pending admission: it stays, or it leaves pending for good, with a  *)
(* rejection or into the loop's hand.                                      *)
LEMMA PollKeepsInv ==
    ASSUME Inv, PollPending
    PROVE  Inv'
<1>1. /\ at = "poll" /\ cur = None /\ index \in 1 .. Len(pending)
      /\ UNCHANGED <<backlog, active, worker, done, wake, closed, busied>>
      /\ UNCHANGED <<pc, req, ran, overdue, faults>>
  BY DEF PollPending, LoopOnly, client, Inv, Types
<1> PICK c \in Clients : c = pending[index]
  BY <1>1, ElementOfSeq DEF Inv, Types
<1>2. /\ In(c, pending)
      /\ Without(pending, index) \in Seq(Clients)
      /\ Len(Without(pending, index)) = Len(pending) - 1
      /\ \A d : In(d, Without(pending, index)) => In(d, pending)
      /\ Distinct(Without(pending, index)) /\ ~In(c, Without(pending, index))
  BY <1>1, WithoutFacts DEF Inv, Types, Queues
<1>3. Held(c) /\ ~In(c, backlog) /\ c # None /\ resp[c] = <<>>
  BY <1>2, ServiceAssumption DEF Held, Inv, Queues, Fresh
<1>4. \/ /\ index' = index + 1
         /\ UNCHANGED <<pending, progressed, cur, at, resp>>
      \/ /\ index' = index /\ pending' = Without(pending, index) /\ progressed' = TRUE
         /\ \/ /\ cur' = c /\ at' = "reserve" /\ UNCHANGED resp
               /\ req[c] = "whole" /\ active < MaxActive
            \/ UNCHANGED <<cur, at>> /\ RejectBounded(c)
  BY DEF PollPending, PollLiveAdmission
<1>5. /\ resp' \in [Clients -> Seq(Messages)]
      /\ \A d \in Clients \ {c} : resp'[d] = resp[d]
      /\ resp'[c] \in {<<>>, <<"Rejected">>}
      /\ resp'[c] # resp[c] => cur' = cur /\ pending' = Without(pending, index)
  BY <1>2, <1>3, <1>4, RejectFacts DEF Inv, Types
<1>6. /\ pending' \in Seq(Clients) /\ Distinct(pending') /\ Len(pending') <= Len(pending)
      /\ \A d : In(d, pending') => In(d, pending)
  <2>1. Len(pending) \in Nat
    BY LenProperties DEF Inv, Types
  <2> QED
    BY <1>2, <1>4, <2>1 DEF Inv, Types, Queues
<1>7. Types'
  <2>1. cur' \in Clients \cup {None} /\ index' \in Nat \ {0}
    BY <1>1, <1>4 DEF Inv, Types
  <2> QED
    BY <1>1, <1>5, <1>6, <2>1 DEF Inv, Types
<1>8. Queues'
  <2>1. CASE UNCHANGED <<cur, at>>
    BY <1>1, <1>6, <2>1 DEF Inv, Queues
  <2>2. CASE cur' = c /\ at' = "reserve" /\ pending' = Without(pending, index)
    <3>1. ~In(c, backlog) /\ ~In(c, pending') /\ at' \in Reserving
      BY <1>2, <1>3, <2>2 DEF Reserving
    <3> QED
      BY <1>1, <1>3, <1>6, <2>2, <3>1 DEF Inv, Queues
  <2> QED
    BY <1>4, <2>1, <2>2
<1>9. ASSUME NEW d \in Clients PROVE (Held(d)' => Held(d)) /\ LetsGo(d)
  <2>1. Held(d)' => Held(d)
    BY <1>1, <1>3, <1>4, <1>6 DEF Held
  <2>2. d # c \/ resp'[c] = resp[c] => LetsGo(d)
    BY <1>1, <1>5 DEF LetsGo
  <2>3. CASE d = c /\ resp'[c] # resp[c]
    <3>1. ~Held(c)'
      BY <1>1, <1>2, <1>3, <1>5, <2>3 DEF Held
    <3> QED
      BY <1>1, <1>3, <1>5, <2>1, <2>3, <3>1 DEF LetsGo
  <2> QED
    BY <2>1, <2>2, <2>3
<1>10. (at' \in Reserving => req[cur'] = "whole") /\ (at' \in Reserving => active < MaxActive)
  BY <1>1, <1>4 DEF Reserving
<1>11. Fresh' /\ Answers' /\ Unsent'
  BY <1>1, <1>9, <1>10, LoopKeepsConnections
<1>12. SlotsInv' /\ Waking' /\ Drained'
  <2>1. Len(pending) <= MaxPending /\ Len(pending) \in Nat /\ Len(pending') \in Nat /\ MaxPending \in Nat
    BY <1>1, <1>6, LenProperties, ServiceAssumption DEF Inv, SlotsInv, SlotsAccounted, Types
  <2>2. Len(pending') <= MaxPending
    BY <1>6, <2>1
  <2>3. at' \in {"poll", "reserve"}
    BY <1>1, <1>4
  <2> QED
    BY <1>1, <1>10, <2>2, <2>3, LoopKeepsSlots
<1>13. Idling'
  <2>1. at' \in {"poll", "reserve"} /\ (UNCHANGED <<pending, progressed>> \/ progressed')
    BY <1>1, <1>4
  <2>2. at' \notin {"drain", "wait"} /\ Listening /\ at \notin {"drain", "wait"}
    BY <1>1, <2>1 DEF Listening
  <2> QED
    <3>1. CASE progressed'
      BY <2>2, <3>1, Zenon DEF Idling
    <3>2. CASE UNCHANGED <<pending, progressed>>
      BY <1>1, <2>2, <3>2, Zenon DEF Inv, Idling
    <3> QED
      BY <2>1, <3>1, <3>2
<1> QED
  BY <1>7, <1>8, <1>11, <1>12, <1>13 DEF Inv

LEMMA EndPollKeepsInv ==
    ASSUME Inv, EndPoll
    PROVE  Inv'
<1>1. /\ at = "poll" /\ at' \in {"drain", "accept"} /\ index' = 1
      /\ UNCHANGED <<cur, backlog, pending, active, progressed, resp, worker, done, wake>>
      /\ UNCHANGED <<closed, busied, overdue, faults>> /\ LoopOnly
      /\ ~closed => at' = "accept"
  BY DEF EndPoll, LoopOnly
<1>2. Types' /\ Queues' /\ Fresh' /\ Answers' /\ Unsent'
  <2>1. cur = None /\ at' \notin Reserving \cup {"admit"}
    BY <1>1, NothingInHand DEF Reserving
  <2> QED
    BY <1>1, <2>1, LoopKeepsQueues DEF Inv, Types
<1>3. SlotsInv' /\ Waking' /\ Drained'
  <2>1. Len(pending) <= MaxPending /\ at' \notin Reserving
    BY <1>1 DEF Inv, SlotsInv, SlotsAccounted, Reserving
  <2> QED
    BY <1>1, <2>1, LoopKeepsSlots
<1>4. Idling'
  <2>1. Listening /\ at \notin {"drain", "wait"} /\ (~closed => at' \notin {"drain", "wait"})
    BY <1>1 DEF Listening
  <2> QED
    BY <1>1, <2>1, Zenon DEF Inv, Idling
<1> QED
  BY <1>2, <1>3, <1>4 DEF Inv

(* try_reserve_execution: the connection in hand gets a slot and a worker, *)
(* or after a stop request nothing.                                        *)
LEMMA ReserveKeepsInv ==
    ASSUME Inv, ReserveExecution
    PROVE  Inv'
<1>1. /\ at \in Reserving /\ cur' = None
      /\ UNCHANGED <<index, backlog, pending, progressed, resp, done, wake, closed>>
      /\ UNCHANGED <<pc, req, ran, overdue, faults>>
  BY DEF ReserveExecution, LoopOnly, client, Reserving
<1>2. /\ cur \in Clients /\ cur # None /\ Held(cur) /\ worker[cur] = "none"
      /\ req[cur] = "whole" /\ active < MaxActive
      /\ ~In(cur, backlog) /\ ~In(cur, pending)
  BY <1>1 DEF Inv, Types, Queues, Held, Fresh, Answers, SlotsInv
<1>3. /\ at' \in {"drain", "poll", "idle"} /\ at' \notin Reserving \cup {"admit"}
      /\ at \notin {"drain", "wait", "exited", "returned"}
  BY <1>1 DEF ReserveExecution, Reserving
<1>4. \/ UNCHANGED <<active, worker, busied>> /\ closed /\ at' = "drain"
      \/ active' = active + 1 /\ worker' = [worker EXCEPT ![cur] = "accept"] /\ at' # "drain"
  BY DEF ReserveExecution
<1>5. /\ DOMAIN worker' = Clients
      /\ \A d \in Clients \ {cur} : worker'[d] = worker[d]
      /\ worker'[cur] \in {worker[cur], "accept"}
  BY <1>2, <1>4 DEF Inv, Types
<1>6. Types'
  BY <1>1, <1>4, <1>5 DEF Inv, Types
<1>7. Queues'
  BY <1>1, <1>3 DEF Inv, Queues
<1>8. \A d \in Clients : (Held(d)' => Held(d)) /\ LetsGo(d)
  <2>1. \A d \in Clients : Held(d)' => Held(d) /\ d # cur
    BY <1>1, <1>2, ServiceAssumption DEF Held
  <2> QED
    BY <1>1, <1>2, <1>5, <2>1 DEF LetsGo
<1>9. Fresh' /\ Answers' /\ Unsent'
  BY <1>1, <1>3, <1>8, LoopKeepsConnections
<1>10. CASE UNCHANGED <<active, worker, busied>> /\ closed /\ at' = "drain"
  <2>1. Len(pending') <= MaxPending
    BY <1>1, <1>3 DEF Inv, SlotsInv, SlotsAccounted
  <2>2. SlotsInv' /\ Waking' /\ Drained'
    BY <1>1, <1>3, <1>10, <2>1, LoopKeepsSlots
  <2>3. Idling'
    BY <1>1, <1>10, Zenon DEF Idling
  <2> QED
    BY <1>6, <1>7, <1>9, <2>2, <2>3 DEF Inv
<1>11. CASE active' = active + 1 /\ worker' = [worker EXCEPT ![cur] = "accept"] /\ at' # "drain"
  <2>1. worker'[cur] = "accept"
    BY <1>2, <1>11 DEF Inv, Types
  <2>2. Workers(Running)' = Workers(Running) \cup {cur} /\ cur \notin Workers(Running)
    BY <1>2, <1>5, <2>1 DEF Workers, Running, Serving
  <2>3. Cardinality(Workers(Running)') = Cardinality(Workers(Running)) + 1
    BY <2>2, RunningFinite, FS_AddElement
  <2>4. /\ active = Cardinality(Workers(Running)) + done /\ Len(pending) <= MaxPending
        /\ active \in Nat /\ done \in Nat /\ MaxActive \in Nat
        /\ Cardinality(Workers(Running)) \in Nat
    BY <1>3, RunningFinite, ServiceAssumption DEF Inv, SlotsInv, SlotsAccounted, Types
  <2>5. active' = Cardinality(Workers(Running)') + done /\ active' <= MaxActive /\ active' > 0
    BY <1>2, <1>11, <2>3, <2>4
  <2>6. SlotsInv'
    BY <1>1, <1>3, <2>4, <2>5 DEF SlotsInv, SlotsAccounted
  <2>7. Workers({"wake"})' = Workers({"wake"}) /\ Workers({"killed"})' = Workers({"killed"})
    BY <1>2, <1>5, <2>1 DEF Workers
  <2>8. Waking'
    BY <1>1, <1>3, <2>7 DEF Inv, Waking
  <2>9. Drained'
    BY <1>1, <1>3, <2>7 DEF Inv, Drained, ShutdownDrains
  <2>10. Idling'
    BY <2>5 DEF Idling
  <2> QED
    BY <1>6, <1>7, <1>9, <2>6, <2>8, <2>9, <2>10 DEF Inv
<1> QED
  BY <1>4, <1>10, <1>11

LEMMA AcceptKeepsInv ==
    ASSUME Inv, AcceptConnection
    PROVE  Inv'
<1>1. /\ at = "accept" /\ cur = None
      /\ UNCHANGED <<index, pending, active, progressed, resp, worker, done, wake, closed, busied>>
      /\ UNCHANGED <<pc, req, ran, overdue, faults>> /\ LoopOnly
  BY NothingInHand DEF AcceptConnection, LoopOnly, client, Reserving
<1>2. Len(pending') <= MaxPending /\ Listening /\ at \notin {"drain", "wait"}
  BY <1>1 DEF Inv, SlotsInv, SlotsAccounted, Listening
<1>3. /\ at' \in {"drain", "idle", "admit"} /\ at' \notin Reserving
      /\ ~closed => at' \notin {"drain", "wait"}
  BY DEF AcceptConnection, Reserving
<1>4. SlotsInv' /\ Waking' /\ Drained'
  BY <1>1, <1>2, <1>3, LoopKeepsSlots
<1>5. Idling'
  BY <1>1, <1>2, <1>3, Zenon DEF Inv, Idling
<1>6. CASE at' # "admit" /\ UNCHANGED <<cur, backlog>>
  BY <1>1, <1>3, <1>4, <1>5, <1>6, LoopKeepsQueues DEF Inv, Types
<1>7. CASE at' = "admit" /\ backlog # <<>> /\ cur' = Head(backlog) /\ backlog' = Tail(backlog)
  <2> PICK c \in Clients : c = Head(backlog)
    BY <1>7, TailFacts DEF Inv, Types
  <2>1. /\ cur' = c /\ c # None /\ backlog' \in Seq(Clients)
        /\ In(c, backlog) /\ ~In(c, backlog') /\ Distinct(backlog')
        /\ \A d : In(d, backlog') => In(d, backlog)
    BY <1>7, TailFacts, ServiceAssumption DEF Inv, Types, Queues
  <2>2. Types'
    BY <1>1, <2>1 DEF Inv, Types
  <2>3. ~In(c, pending)
    BY <2>1 DEF Inv, Queues
  <2>4. Queues'
    BY <1>1, <1>7, <2>1, <2>3 DEF Inv, Queues
  <2>5. \A d \in Clients : (Held(d)' => Held(d)) /\ LetsGo(d)
    BY <1>1, <2>1 DEF Held, LetsGo
  <2>6. Fresh' /\ Answers' /\ Unsent'
    BY <1>1, <1>3, <2>5, LoopKeepsConnections
  <2> QED
    BY <1>4, <1>5, <2>2, <2>4, <2>6 DEF Inv
<1> QED
  BY <1>6, <1>7 DEF AcceptConnection

(* The connection in hand leaves it, unanswered or with a rejection. *)
LEMMA DropInHand ==
    ASSUME Inv, at = "admit", cur' = None, at' \notin Reserving \cup {"admit"},
           UNCHANGED <<index, backlog, pending, active, worker, done>>, LoopOnly,
           UNCHANGED resp \/ RejectBounded(cur)
    PROVE  Types' /\ Queues' /\ Fresh' /\ Answers' /\ Unsent'
<1>1. UNCHANGED <<pc, req, ran, overdue, faults>>
  BY DEF LoopOnly, client
<1>2. PICK c \in Clients : c = cur
  BY DEF Inv, Types, Queues
<1>3. c # None /\ Held(c) /\ ~In(c, backlog) /\ ~In(c, pending) /\ resp[c] = <<>>
  BY <1>2, ServiceAssumption DEF Inv, Queues, Held, Fresh
<1>4. /\ resp' \in [Clients -> Seq(Messages)] /\ resp'[c] \in {<<>>, <<"Rejected">>}
      /\ \A d \in Clients \ {c} : resp'[d] = resp[d]
  BY <1>2, <1>3, RejectFacts DEF Inv, Types
<1>5. Types'
  BY <1>1, <1>4 DEF Inv, Types
<1>6. Queues'
  BY <1>1 DEF Inv, Queues
<1>7. \A d \in Clients : (Held(d)' => Held(d)) /\ (d = c => ~Held(d)')
  BY <1>2, <1>3, ServiceAssumption DEF Held
<1>8. \A d \in Clients : LetsGo(d)
  BY <1>3, <1>4, <1>7 DEF LetsGo
<1> QED
  BY <1>1, <1>5, <1>6, <1>7, <1>8, LoopKeepsConnections

LEMMA RefuseKeepsInv ==
    ASSUME Inv, RefusePeer
    PROVE  Inv'
<1>1. /\ at = "admit" /\ at' = "idle" /\ cur' = None
      /\ UNCHANGED <<index, backlog, pending, active, progressed, resp, worker, done, wake>>
      /\ UNCHANGED <<closed, busied, overdue, faults>> /\ LoopOnly
  BY DEF RefusePeer, LoopOnly
<1>2. at' \notin Reserving \cup {"admit"} /\ Len(pending') <= MaxPending
  BY <1>1 DEF Reserving, Inv, SlotsInv, SlotsAccounted
<1>3. Types' /\ Queues' /\ Fresh' /\ Answers' /\ Unsent'
  BY <1>1, <1>2, DropInHand
<1>4. SlotsInv' /\ Waking' /\ Drained'
  BY <1>1, <1>2, LoopKeepsSlots
<1>5. Idling'
  BY <1>1 DEF Inv, Idling, Listening
<1> QED
  BY <1>3, <1>4, <1>5 DEF Inv

(* The first poll of a new connection. *)
LEMMA AdmitKeepsInv ==
    ASSUME Inv, AdmitConnection
    PROVE  Inv'
<1>1. /\ at = "admit"
      /\ UNCHANGED <<index, backlog, active, worker, done, wake, closed>>
      /\ UNCHANGED <<pc, req, ran, overdue, faults>> /\ LoopOnly
  BY DEF AdmitConnection, LoopOnly, client
<1>2. /\ Len(pending) <= MaxPending /\ Listening /\ at \notin {"drain", "wait"}
      /\ at \notin Reserving
  BY <1>1 DEF Inv, SlotsInv, SlotsAccounted, Listening, Reserving
<1>3. CASE closed /\ at' = "drain" /\ cur' = None /\ UNCHANGED <<pending, progressed, resp, busied>>
  <2>1. Types' /\ Queues' /\ Fresh' /\ Answers' /\ Unsent'
    BY <1>1, <1>3, DropInHand DEF Reserving
  <2>2. SlotsInv' /\ Waking' /\ Drained'
    BY <1>1, <1>2, <1>3, LoopKeepsSlots DEF Reserving
  <2>3. Idling'
    BY <1>1, <1>3, Zenon DEF Idling
  <2> QED
    BY <2>1, <2>2, <2>3 DEF Inv
<1>4. CASE /\ PollLiveAdmission(cur) = "Complete" /\ active < MaxActive
           /\ at' = "reserve new" /\ progressed' = TRUE /\ UNCHANGED <<cur, pending, resp, busied>>
  <2>1. at' \in Reserving /\ req[cur] = "whole"
    BY <1>4 DEF Reserving, PollLiveAdmission
  <2>2. Types' /\ Queues'
    BY <1>1, <1>4, <2>1 DEF Inv, Types, Queues
  <2>3. \A d \in Clients : (Held(d)' => Held(d)) /\ LetsGo(d)
    BY <1>1, <1>4 DEF Held, LetsGo
  <2>4. Fresh' /\ Answers' /\ Unsent'
    BY <1>1, <1>4, <2>1, <2>3, LoopKeepsConnections
  <2>5. SlotsInv' /\ Waking' /\ Drained'
    BY <1>1, <1>2, <1>4, LoopKeepsSlots
  <2>6. Idling'
    BY <1>4 DEF Idling
  <2> QED
    BY <2>2, <2>4, <2>5, <2>6 DEF Inv
<1>5. CASE /\ RejectBounded(cur) /\ at' = "idle" /\ cur' = None /\ progressed' = TRUE
           /\ UNCHANGED pending
  <2>1. Types' /\ Queues' /\ Fresh' /\ Answers' /\ Unsent'
    BY <1>1, <1>5, DropInHand DEF Reserving
  <2>2. SlotsInv' /\ Waking' /\ Drained'
    BY <1>1, <1>2, <1>5, LoopKeepsSlots DEF Reserving
  <2>3. Idling'
    BY <1>5 DEF Idling
  <2> QED
    BY <2>1, <2>2, <2>3 DEF Inv
<1>6. CASE /\ IF Len(pending) = MaxPending
              THEN RejectBounded(Head(pending)) /\ pending' = Append(Tail(pending), cur)
              ELSE UNCHANGED resp /\ pending' = Append(pending, cur)
           /\ at' = "idle" /\ cur' = None /\ progressed' = TRUE
  <2> PICK c \in Clients : c = cur
    BY <1>1 DEF Inv, Types, Queues
  <2>1. c # None /\ ~In(c, backlog) /\ ~In(c, pending) /\ Held(c)
    BY <1>1, ServiceAssumption DEF Inv, Queues, Held
  <2>2. Len(pending) \in Nat /\ MaxPending \in Nat \ {0} /\ pending \in Seq(Clients)
    BY LenProperties, ServiceAssumption DEF Inv, Types
  <2>3. \E rest \in Seq(Clients) :
            /\ pending' = Append(rest, c) /\ Distinct(rest) /\ Len(rest) < MaxPending
            /\ \A d : In(d, rest) => In(d, pending)
            /\ resp' \in [Clients -> Seq(Messages)]
            /\ \A d \in Clients : \/ resp'[d] = resp[d]
                                  \/ /\ In(d, pending) /\ ~In(d, rest)
                                     /\ resp'[d] \in {<<>>, <<"Rejected">>}
    <3>1. CASE Len(pending) = MaxPending
      <4>0. pending # <<>>
        BY <2>2, <3>1, EmptySeq
      <4>1. /\ Tail(pending) \in Seq(Clients) /\ Len(Tail(pending)) = Len(pending) - 1
            /\ Distinct(Tail(pending)) /\ ~In(Head(pending), Tail(pending))
            /\ In(Head(pending), pending) /\ Head(pending) \in Clients
            /\ \A d : In(d, Tail(pending)) => In(d, pending)
        BY <2>2, <4>0, TailFacts DEF Inv, Queues
      <4>2. /\ resp' \in [Clients -> Seq(Messages)]
            /\ resp'[Head(pending)] \in {<<>>, <<"Rejected">>}
            /\ \A d \in Clients \ {Head(pending)} : resp'[d] = resp[d]
        BY <1>6, <3>1, <4>1, RejectFacts DEF Held
      <4>3. Len(Tail(pending)) < MaxPending
        BY <2>2, <3>1, <4>1
      <4> Tail(pending) \in Seq(Clients)
        BY <4>1
      <4> WITNESS Tail(pending) \in Seq(Clients)
      <4> QED
        BY <1>6, <3>1, <4>1, <4>2, <4>3
    <3>2. CASE Len(pending) # MaxPending
      <4>1. Len(pending) < MaxPending
        BY <1>2, <2>2, <3>2
      <4> pending \in Seq(Clients)
        BY <2>2
      <4> WITNESS pending \in Seq(Clients)
      <4> QED
        BY <1>6, <3>2, <4>1 DEF Inv, Types, Queues
    <3> QED
      BY <3>1, <3>2
  <2> PICK rest \in Seq(Clients) : <2>3!(rest)
    BY <2>3
  <2>4. /\ pending' \in Seq(Clients) /\ Len(pending') = Len(rest) + 1 /\ Distinct(pending')
        /\ \A d : In(d, pending') <=> In(d, rest) \/ d = c
    BY <2>1, AppendFacts
  <2>5. Len(pending') <= MaxPending /\ pending' # <<>>
    <3>1. Len(rest) \in Nat /\ Len(rest) < MaxPending /\ Len(pending') = Len(rest) + 1
      BY <2>4, LenProperties
    <3>2. MaxPending \in Nat
      BY <2>2
    <3>3. Len(pending') <= MaxPending /\ Len(pending') # 0
      BY <3>1, <3>2
    <3> QED
      BY <3>3, EmptySeq
  <2>6. Types'
    BY <1>1, <1>6, <2>4 DEF Inv, Types
  <2>7. at' \notin Reserving \cup {"admit"}
    BY <1>6 DEF Reserving
  <2>8. Queues'
    <3>1. \A d \in Clients : ~(In(d, backlog) /\ In(d, pending'))
      BY <2>1, <2>4 DEF Inv, Queues
    <3> QED
      BY <1>1, <1>6, <2>4, <2>7, <3>1 DEF Inv, Queues
  <2>9. ASSUME NEW d \in Clients PROVE (Held(d)' => Held(d)) /\ LetsGo(d)
    <3>1. Held(d)' <=> In(d, backlog) \/ In(d, rest) \/ d = c
      BY <1>1, <1>6, <2>4, ServiceAssumption DEF Held
    <3>2. In(d, pending) => Held(d) /\ ~In(d, backlog) /\ d # c
      BY <2>1 DEF Held, Inv, Queues
    <3>3. Held(d)' => Held(d)
      BY <2>1, <3>1, <3>2 DEF Held
    <3>4. LetsGo(d)
      BY <1>1, <3>1, <3>2 DEF LetsGo
    <3> QED
      BY <3>3, <3>4
  <2>10. Fresh' /\ Answers' /\ Unsent'
    BY <1>1, <2>7, <2>9, LoopKeepsConnections
  <2>11. SlotsInv' /\ Waking' /\ Drained'
    BY <1>1, <1>2, <1>6, <2>5, <2>7, LoopKeepsSlots
  <2>12. Idling'
    BY <2>5 DEF Idling
  <2> QED
    BY <2>6, <2>8, <2>10, <2>11, <2>12 DEF Inv
<1> QED
  BY <1>3, <1>4, <1>5, <1>6 DEF AdmitConnection

(* Work that is over restarts idle_since. *)
LEMMA IdleKeepsInv ==
    ASSUME Inv, CheckIdle
    PROVE  Inv'
<1>1. /\ at = "idle" /\ at' \in {"drain", "wait"}
      /\ UNCHANGED <<cur, index, backlog, pending, active, progressed, resp, worker, done, wake>>
      /\ UNCHANGED <<overdue, faults>> /\ LoopOnly
  BY DEF CheckIdle, LoopOnly
<1>2. /\ cur = None /\ at' \notin Reserving \cup {"admit"} /\ Len(pending') <= MaxPending
      /\ Listening /\ at \notin {"drain", "wait"}
  BY <1>1, NothingInHand DEF Reserving, Inv, SlotsInv, SlotsAccounted, Listening
<1>3. Types' /\ Queues' /\ Fresh' /\ Answers' /\ Unsent'
  BY <1>1, <1>2, LoopKeepsQueues DEF Inv, Types
<1>4. SlotsInv' /\ Waking' /\ Drained'
  BY <1>1, <1>2, LoopKeepsSlots
<1>5. Idling'
  <2>1. CASE closed' = TRUE
    BY <2>1 DEF Idling
  <2>2. CASE busied' = (active > 0 \/ pending # <<>>)
    BY <1>1, <2>2 DEF Idling
  <2>3. CASE ~(active > 0 \/ pending # <<>> \/ progressed) /\ UNCHANGED <<closed, busied>>
    BY <1>1, <1>2, <2>3, Zenon DEF Inv, Idling
  <2> QED
    BY <2>1, <2>2, <2>3 DEF CheckIdle
<1> QED
  BY <1>3, <1>4, <1>5 DEF Inv

LEMMA WaitKeepsInv ==
    ASSUME Inv, WaitForServiceEvent
    PROVE  Inv'
<1>1. /\ at = "wait" /\ at' = "drain"
      /\ UNCHANGED <<cur, index, backlog, pending, active, progressed, resp, worker, done>>
      /\ UNCHANGED <<closed, busied, overdue, faults>> /\ LoopOnly
  BY DEF WaitForServiceEvent, LoopOnly
<1>2. cur = None /\ at' \notin Reserving \cup {"admit"} /\ Len(pending') <= MaxPending
  BY <1>1, NothingInHand DEF Reserving, Inv, SlotsInv, SlotsAccounted
<1>3. Types' /\ Queues' /\ Fresh' /\ Answers' /\ Unsent'
  BY <1>1, <1>2, LoopKeepsQueues DEF Inv, Types
<1>4. SlotsInv' /\ Waking' /\ Drained'
  BY <1>1, <1>2, LoopKeepsSlots
<1>5. Idling'
  BY <1>1 DEF Inv, Idling, Listening
<1> QED
  BY <1>3, <1>4, <1>5 DEF Inv

-----------------------------------------------------------------------------
(* The process and the time.                                               *)

(* A step that takes every connection out of the loop's hands. *)
LEMMA AllDropped ==
    ASSUME Inv, UNCHANGED <<client, resp, ran>>, at' \in {"returned", "exited"},
           cur' = None, backlog' = <<>>, pending' = <<>>,
           DOMAIN worker' = Clients,
           \A c \in Clients : worker'[c] # worker[c] => worker[c] # "none" /\ worker'[c] # "none",
           index' \in Nat \ {0}, active' \in Nat, done' \in Nat, faults' \in Nat
    PROVE  Types' /\ Queues' /\ Fresh' /\ Answers' /\ Unsent' /\ Idling'
<1>1. UNCHANGED <<pc, req, resp, ran>> /\ at' \notin Reserving \cup {"admit"}
  BY DEF client, Reserving
<1>2. <<>> \in Seq(Clients) /\ Distinct(<<>>) /\ \A c \in Clients : ~In(c, <<>>)
  BY EmptySeq DEF Distinct, In
<1>3. Types'
  BY <1>1, <1>2 DEF Inv, Types
<1>4. Queues'
  BY <1>1, <1>2 DEF Queues
<1>5. \A c \in Clients : ~Held(c)'
  BY <1>2, ServiceAssumption DEF Held
<1>6. Fresh'
  BY <1>1, <1>5 DEF Inv, Fresh
<1>7. Answers'
  BY <1>1 DEF Inv, Answers
<1>8. Unsent'
  BY <1>1 DEF Inv, Unsent
<1>9. Idling'
  BY DEF Idling, Listening
<1> QED
  BY <1>3, <1>4, <1>6, <1>7, <1>8, <1>9

LEMMA ListenerFailsKeepsInv ==
    ASSUME Inv, ListenerFails
    PROVE  Inv'
<1>1. /\ at \in {"accept", "admit", "wait"} /\ at' = "returned" /\ faults' = faults + 1
      /\ cur' = None /\ backlog' = <<>> /\ pending' = <<>>
      /\ UNCHANGED <<client, resp, index, active, worker, done, wake, ran>>
  BY DEF ListenerFails, threads
<1>2. faults' \in Nat /\ faults' > 0
  BY <1>1 DEF Inv, Types
<1>3. Types' /\ Queues' /\ Fresh' /\ Answers' /\ Unsent' /\ Idling'
  BY <1>1, <1>2, AllDropped DEF Inv, Types
<1>4. \A S : Workers(S)' = Workers(S)
  BY <1>1 DEF Workers
<1>5. SlotsInv'
  <2>1. active = Cardinality(Workers(Running)) + done /\ active <= MaxActive
    BY <1>1 DEF Inv, SlotsInv, SlotsAccounted
  <2>2. Len(pending') <= MaxPending
    <3>1. Len(<<>>) = 0 /\ MaxPending \in Nat
      BY EmptySeq, ServiceAssumption
    <3> QED
      BY <1>1, <3>1
  <2> QED
    BY <1>1, <1>4, <2>1, <2>2 DEF SlotsInv, SlotsAccounted, Reserving
<1>6. Waking'
  BY <1>1, <1>4 DEF Inv, Waking
<1>7. Drained'
  BY <1>2 DEF Drained, ShutdownDrains
<1> QED
  BY <1>3, <1>5, <1>6, <1>7 DEF Inv

(* The end of the process kills a worker only after a fault or when the    *)
(* drain has taken too long.                                               *)
LEMMA EndProcessKeepsInv ==
    ASSUME Inv, EndProcess,
           \/ at = "returned" /\ faults' = faults
           \/ faults' = faults + 1
    PROVE  Inv'
<1>1. /\ at' = "exited" /\ cur' = None /\ index' = 1 /\ backlog' = <<>> /\ pending' = <<>>
      /\ active' = 0 /\ done' = 0 /\ UNCHANGED <<client, resp, ran, overdue>>
  BY DEF EndProcess
<1>2. /\ DOMAIN worker' = Clients
      /\ \A c \in Clients : worker'[c] = IF worker[c] \in Running THEN "killed"
                                         ELSE IF worker[c] = "wake" THEN "ended" ELSE worker[c]
  BY DEF EndProcess
<1>3. \A c \in Clients : worker'[c] # worker[c] => worker[c] # "none" /\ worker'[c] # "none"
  BY <1>2 DEF Running, Serving
<1>4. faults' \in Nat /\ (faults' = faults + 1 => faults' > 0)
  BY DEF Inv, Types
<1>5. Types' /\ Queues' /\ Fresh' /\ Answers' /\ Unsent' /\ Idling'
  BY <1>1, <1>2, <1>3, <1>4, AllDropped
<1>6. SlotsInv' /\ Waking'
  BY <1>1 DEF SlotsInv, SlotsAccounted, Waking, Reserving
<1>7. Drained'
  <2>1. CASE faults' = faults + 1
    BY <1>4, <2>1 DEF Drained, ShutdownDrains
  <2>2. CASE at = "returned" /\ faults' = faults
    <3>1. CASE faults > 0 \/ overdue
      BY <1>1, <2>2, <3>1 DEF Drained, ShutdownDrains
    <3>2. CASE ~(faults > 0 \/ overdue)
      <4>1. active = 0 /\ active = Cardinality(Workers(Running)) + done /\ done \in Nat
        BY <2>2, <3>2 DEF Inv, Drained, SlotsInv, SlotsAccounted, Types
      <4>2. Cardinality(Workers(Running)) \in Nat
        BY RunningFinite
      <4>3. Cardinality(Workers(Running)) = 0
        BY <4>1, <4>2
      <4>4. Workers(Running) = {} /\ Workers({"killed"}) = {}
        BY <3>2, <4>3, RunningFinite DEF Inv, Drained, ShutdownDrains
      <4>5. Workers({"killed"})' = {}
        BY <1>2, <4>4 DEF Workers
      <4> QED
        BY <1>1, <4>5 DEF Drained, ShutdownDrains
    <3> QED
      BY <3>1, <3>2
  <2> QED
    BY <2>1, <2>2
<1> QED
  BY <1>5, <1>6, <1>7 DEF Inv

(* The passing of time and a stop request change nothing of this. *)
LEMMA TimeKeepsInv ==
    ASSUME Inv, UNCHANGED <<pc, req, resp, loop, threads, busied, faults>>,
           overdue => overdue', closed => closed'
    PROVE  Inv'
<1>1. UNCHANGED <<at, cur, index, backlog, pending, active, progressed, worker, done, wake, ran>>
  BY DEF loop, threads
<1>2. \A S : Workers(S)' = Workers(S)
  BY <1>1 DEF Workers
<1>3. Types' /\ Queues'
  BY <1>1 DEF Inv, Types, Queues
<1>4. Fresh' /\ Answers' /\ Unsent'
  BY <1>1 DEF Inv, Fresh, Held, Answers, Unsent
<1>5. SlotsInv' /\ Waking'
  BY <1>1, <1>2 DEF Inv, SlotsInv, SlotsAccounted, Waking
<1>6. Drained'
  BY <1>1, <1>2 DEF Inv, Drained, ShutdownDrains
<1>7. Idling'
  BY <1>1, Zenon DEF Inv, Idling, Listening
<1> QED
  BY <1>3, <1>4, <1>5, <1>6, <1>7 DEF Inv

LEMMA InitInv == Init => Inv
<1> SUFFICES ASSUME Init PROVE Inv
  OBVIOUS
<1>1. <<>> \in Seq(Clients) /\ <<>> \in Seq(Messages) /\ Len(<<>>) = 0
  BY EmptySeq
<1>2. Types
  BY <1>1 DEF Init, Types
<1>3. Distinct(<<>>) /\ \A c : ~In(c, <<>>)
  BY DEF Distinct, In
<1>4. Queues
  BY <1>3 DEF Init, Queues, Reserving
<1>5. \A c \in Clients : ~Held(c)
  BY <1>3, ServiceAssumption DEF Init, Held
<1>6. Fresh /\ Answers /\ Unsent
  BY <1>5 DEF Init, Fresh, Answers, Unsent, Reserving
<1>7. Workers(Running) = {} /\ Workers({"killed"}) = {}
  BY DEF Init, Workers, Running, Serving
<1>8. SlotsInv
  <2>1. Cardinality(Workers(Running)) = 0
    BY <1>7, FS_EmptySet
  <2>2. active = 0 /\ done = 0 /\ pending = <<>> /\ at \notin Reserving
    BY DEF Init, Reserving
  <2>3. MaxActive \in Nat /\ MaxPending \in Nat
    BY ServiceAssumption
  <2> QED
    BY <1>1, <2>1, <2>2, <2>3 DEF SlotsInv, SlotsAccounted
<1>9. Waking /\ Drained /\ Idling
  BY <1>7 DEF Init, Waking, Drained, ShutdownDrains, Idling
<1> QED
  BY <1>2, <1>4, <1>6, <1>8, <1>9 DEF Inv

(* Every step of the service, of its clients and of time keeps the         *)
(* invariant.                                                              *)
LEMMA NextKeepsInv ==
    ASSUME Inv, [Next]_vars
    PROVE  Inv'
<1>1. CASE LoopStep
  BY <1>1, ReceiveKeepsInv, CheckKeepsInv, PollKeepsInv, EndPollKeepsInv, ReserveKeepsInv,
     AcceptKeepsInv, RefuseKeepsInv, AdmitKeepsInv, IdleKeepsInv, WaitKeepsInv DEF LoopStep
<1>2. ASSUME NEW c \in Clients, DeadlinePasses(c) \/ AdmissionExpires(c) PROVE Inv'
  BY <1>2, TimeKeepsInv DEF DeadlinePasses, AdmissionExpires, stop
<1>3. CASE IdleTimeoutPasses \/ DrainTimeoutPasses
  BY <1>3, TimeKeepsInv DEF IdleTimeoutPasses, DrainTimeoutPasses, client
<1>4. CASE RequestShutdown
  BY <1>4, TimeKeepsInv DEF RequestShutdown, client
<1>5. CASE ExitProcess
  BY <1>5, EndProcessKeepsInv DEF ExitProcess
<1>6. CASE KillService
  BY <1>6, EndProcessKeepsInv DEF KillService
<1>7. CASE UNCHANGED vars
  BY <1>7, TimeKeepsInv DEF vars, loop, threads
<1> QED
  BY <1>1, <1>2, <1>3, <1>4, <1>5, <1>6, <1>7, ClientStepKeepsInv, WorkerStepKeepsInv,
     ListenerFailsKeepsInv DEF Next, Finished

LEMMA InvHolds == Spec => []Inv
BY InitInv, NextKeepsInv, PTL DEF Spec

-----------------------------------------------------------------------------
(* The theorems.                                                           *)

(* However many connections there are, the loop's count of slots is the    *)
(* running workers plus the releases on their way, within MaxActive, and   *)
(* no more than MaxPending admissions wait.                                *)
THEOREM SlotsAreAccounted == Spec => []SlotsAccounted
<1>1. Inv => SlotsAccounted
  BY DEF Inv, SlotsInv
<1> QED
  BY <1>1, InvHolds, PTL

(* The loop never goes to wait over a completion whose byte has already    *)
(* been taken from the pipe.                                               *)
THEOREM WakeupsArrive == Spec => []NoLostWakeup
<1>1. Inv => NoLostWakeup
  BY DEF Inv, Waking, NoLostWakeup
<1> QED
  BY <1>1, InvHolds, PTL

(* A rejected request, and one whose client gave up before it was written, *)
(* never reaches the handler.                                              *)
THEOREM RefusedRequestsNeverRun == Spec => []RefusedNeverRan
<1>1. ASSUME Inv PROVE RefusedNeverRan
  <2> SUFFICES ASSUME NEW c \in Clients PROVE RefusedNeverRan!(c)
    BY DEF RefusedNeverRan
  <2>1. ~In("Rejected", <<>>) /\ Len(<<"Rejected">>) = 1
    BY DEF In
  <2>2. In("Rejected", resp[c]) => worker[c] = "none" /\ resp[c] = <<"Rejected">>
    BY <1>1, <2>1 DEF Inv, Answers
  <2>3. pc[c] \in {"absent", "unsent"} => worker[c] = "none"
    BY <1>1 DEF Inv, Unsent, Answers
  <2>4. worker[c] = "none" => c \notin ran
    BY <1>1 DEF Inv, Answers
  <2> QED
    BY <2>1, <2>2, <2>3, <2>4
<1> QED
  BY <1>1, InvHolds, PTL

(* A worker that dies with the process has outlived the drain, or the      *)
(* service was killed or lost its listener.                                *)
THEOREM ShutdownWaitsForWorkers == Spec => []ShutdownDrains
<1>1. Inv => ShutdownDrains
  BY DEF Inv, Drained
<1> QED
  BY <1>1, InvHolds, PTL

(* After a stop request no request is given to a worker. *)
THEOREM NothingAdmittedAfterShutdown == Spec => NoAdmissionAfterShutdown
<1>1. ASSUME Inv, [Next]_vars PROVE [closed => Workers({"none"})' = Workers({"none"})]_vars
  <2> SUFFICES ASSUME Next, closed PROVE Workers({"none"})' = Workers({"none"})
    BY <1>1
  <2>1. DOMAIN worker = Clients
    BY <1>1 DEF Inv, Types
  <2>2. CASE UNCHANGED worker
    BY <2>2 DEF Workers
  <2>3. ASSUME NEW c \in Clients, NEW s, WorkerTo(c, s), worker[c] # "none", s # "none"
        PROVE  Workers({"none"})' = Workers({"none"})
    <3>1. worker'[c] = s /\ \A d \in Clients \ {c} : worker'[d] = worker[d]
      BY <2>1, <2>3 DEF WorkerTo
    <3> QED
      BY <2>3, <3>1 DEF Workers
  <2>4. ASSUME NEW c \in Clients, WorkerStep(c) PROVE Workers({"none"})' = Workers({"none"})
    BY <2>3, <2>4
       DEF WorkerStep, SendAccepted, RunHandler, SendCompleted, ReleaseSlot, WakeLoop
  <2>5. ASSUME NEW c \in Clients, ClientStep(c) PROVE UNCHANGED worker
    BY <2>5 DEF ClientStep, Connect, BeginExchange, WriteRequest, FinishWrite, ReadResponse,
                ReadCompletion, StrangerWrites, ClientGone, ClientOnly, threads
  <2>6. ASSUME LoopStep PROVE UNCHANGED worker
    BY <2>6 DEF LoopStep, ReceiveCompletions, CheckShutdown, PollPending, EndPoll,
                ReserveExecution, AcceptConnection, RefusePeer, AdmitConnection, CheckIdle,
                WaitForServiceEvent
  <2>7. ASSUME EndProcess PROVE Workers({"none"})' = Workers({"none"})
    BY <2>7 DEF EndProcess, Workers, Running, Serving
  <2>8. ASSUME NEW c \in Clients, DeadlinePasses(c) \/ AdmissionExpires(c) PROVE UNCHANGED worker
    BY <2>8 DEF DeadlinePasses, AdmissionExpires, threads
  <2>9. ASSUME \/ IdleTimeoutPasses \/ DrainTimeoutPasses
               \/ RequestShutdown \/ ListenerFails \/ Finished
        PROVE  UNCHANGED worker
    BY <2>9 DEF IdleTimeoutPasses, DrainTimeoutPasses, RequestShutdown, ListenerFails,
                Finished, vars, threads
  <2> QED
    BY <2>2, <2>4, <2>5, <2>6, <2>7, <2>8, <2>9 DEF Next, ExitProcess, KillService
<1> QED
  BY <1>1, InvHolds, PTL DEF Spec, NoAdmissionAfterShutdown

(* The loop's own stop for idleness comes only when nothing has been       *)
(* pending or executing since idle_since.                                  *)
THEOREM IdleServiceWasIdle == Spec => IdleShutdownIsIdle
<1>1. ASSUME Inv, [Next]_vars, at = "idle", at' = "drain", closed' # closed
      PROVE  ~busied /\ Workers(Running) = {}
  <2>1. CASE CheckIdle
    <3>1. active = 0 /\ pending = <<>> /\ ~progressed /\ ~closed
      BY <1>1, <2>1 DEF CheckIdle, IdleShutdown
    <3>2. ~busied
      <4>1. Listening /\ ~(active > 0)
        BY <1>1, <3>1 DEF Listening
      <4> QED
        BY <1>1, <3>1, <4>1, Zenon DEF Inv, Idling
    <3>3. Cardinality(Workers(Running)) = 0
      <4>1. active = Cardinality(Workers(Running)) + done /\ done \in Nat
        BY <1>1 DEF Inv, SlotsInv, SlotsAccounted, Types
      <4>2. Cardinality(Workers(Running)) \in Nat
        BY RunningFinite
      <4> QED
        BY <3>1, <4>1, <4>2
    <3> QED
      BY <3>2, <3>3, RunningFinite
  <2>2. CASE LoopStep
    BY <1>1, <2>1, <2>2 DEF LoopStep, ReceiveCompletions, CheckShutdown, PollPending, EndPoll,
       ReserveExecution, AcceptConnection, RefusePeer, AdmitConnection, WaitForServiceEvent
  <2>3. ASSUME NEW c \in Clients, ClientStep(c) PROVE UNCHANGED at
    BY <2>3 DEF ClientStep, Connect, BeginExchange, WriteRequest, FinishWrite, ReadResponse,
                ReadCompletion, StrangerWrites, ClientGone, ClientOnly
  <2>4. ASSUME NEW c \in Clients, WorkerStep(c) PROVE UNCHANGED at
    BY <2>4 DEF WorkerStep, SendAccepted, RunHandler, SendCompleted, ReleaseSlot, WakeLoop,
                WorkerOnly, loop
  <2>5. ASSUME NEW c \in Clients, DeadlinePasses(c) \/ AdmissionExpires(c) PROVE UNCHANGED at
    BY <2>5 DEF DeadlinePasses, AdmissionExpires, loop
  <2>6. IdleTimeoutPasses \/ DrainTimeoutPasses \/ RequestShutdown \/ Finished => UNCHANGED at
    BY DEF IdleTimeoutPasses, DrainTimeoutPasses, RequestShutdown, Finished, vars, loop
  <2>7. ListenerFails \/ ExitProcess \/ KillService => at' # "drain"
    BY DEF ListenerFails, ExitProcess, KillService, EndProcess
  <2>8. UNCHANGED vars => UNCHANGED at
    BY DEF vars
  <2> QED
    BY <1>1, <2>2, <2>3, <2>4, <2>5, <2>6, <2>7, <2>8 DEF Next
<1>2. Inv /\ [Next]_vars
        => [(at = "idle" /\ at' = "drain" /\ closed' # closed)
                => ~busied /\ Workers(Running) = {}]_vars
  BY <1>1
<1> QED
  BY <1>2, InvHolds, PTL DEF Spec, IdleShutdownIsIdle

=============================================================================
