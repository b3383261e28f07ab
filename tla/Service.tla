-------------------------------- MODULE Service --------------------------------
(***************************************************************************)
(* The local service: one loop that accepts connections and admits         *)
(* requests, one worker thread per admitted request, and the command-line  *)
(* clients, each of which offers one request and falls back to executing   *)
(* it itself.                                                              *)
(*                                                                         *)
(* Sources: yams-service/src/service.rs (serve_until and what it calls)    *)
(* and main.rs, yams-cli/src/client.rs (try_service_with), and the         *)
(* exchange of yams-protocol/src/frame.rs.  A frame is what has arrived of *)
(* it: nothing, a part, the whole, or bytes that are no request.  Time is  *)
(* one number per connection: 0 before the client's deadline, 1 once it    *)
(* has passed, 2 once expires_at, two seconds after acceptance and so      *)
(* never before the client's deadline, has passed too.                     *)
(***************************************************************************)
EXTENDS Naturals, Sequences, FiniteSets

CONSTANTS
    Clients,      \* connections; each client or stranger makes one
    Strangers,    \* the peers among them that are not the yams client
    None,
    MaxActive,    \* MAX_ACTIVE_REQUESTS
    MaxPending,   \* MAX_PENDING_ADMISSIONS
    EnvOps,       \* what the rest of the system may do (ServiceAssumption)
    MaxFaults      \* bound on kills of the service and on failing calls

ASSUME ServiceAssumption ==
    /\ IsFiniteSet(Clients) /\ Strangers \subseteq Clients /\ None \notin Clients
    /\ EnvOps \subseteq {"stop", "idle", "kill", "error", "hang up", "refuse"}
    /\ MaxActive \in Nat \ {0} /\ MaxPending \in Nat \ {0} /\ MaxFaults \in Nat

VARIABLES
    pc,         \* the step of each client, at the end its outcome
    clock,      \* time on each connection
    req,        \* the request frame, as far as it has arrived
    resp,       \* responses sent and not yet read
    at,         \* the step of the service loop
    cur,        \* the connection the loop has in hand
    index,      \* the loop's position in pending
    backlog,    \* connections not yet accepted
    pending,    \* accepted connections still delivering a request
    active,     \* the loop's count of worker slots in use
    progressed, \* has this turn of the loop done anything?
    elapsed,    \* has idle_timeout passed since idle_since?
    closed,     \* admission_closed of the ShutdownToken
    overdue,    \* have 30 seconds passed since the loop saw it?
    worker,     \* the step of each request's worker thread
    done,       \* completions sent on the channel and not received
    wake,       \* does the completion pipe hold a byte?
    ran,        \* history: requests a worker handed to the handler
    busied,     \* history: has there been work since idle_since?
    faults

client == <<pc, clock, req>>
threads == <<worker, done, wake, ran>>
loop == <<at, cur, index, backlog, pending, active, progressed>>
stop == <<elapsed, closed, overdue, busied>>
vars == <<pc, clock, req, resp, at, cur, index, backlog, pending, active,
          progressed, elapsed, closed, overdue, worker, done, wake, ran, busied, faults>>

-----------------------------------------------------------------------------
(* What a client can end with.  A client that returns None from            *)
(* try_service executes its request itself: because no service answered,   *)
(* because the deadline passed before its request was written, or because  *)
(* it passed just after.                                                   *)
Direct == {"absent", "unsent", "late"}
Outcome == Direct \cup {"failed", "completed", "gone"}
Exchange == {"connected", "writing", "written", "reading", "waiting"}

(* The client still has its end of the stream open. *)
ClientOpen(c) == pc[c] \in Exchange

(* A worker that still has the stream, and one whose slot is not released. *)
Serving == {"accept", "handle", "complete"}
Running == Serving \cup {"send"}
Workers(S) == {c \in Clients : worker[c] \in S}

In(c, s) == \E i \in 1 .. Len(s) : s[i] = c
Without(s, i) == SubSeq(s, 1, i - 1) \o SubSeq(s, i + 1, Len(s))

(* The service still has its end open: some owner in it holds the stream. *)
ServiceOpen(c) ==
    In(c, backlog) \/ In(c, pending) \/ cur = c \/ worker[c] \in Serving

Listening == at \notin {"returned", "exited"}

Init ==
    /\ pc = [c \in Clients |-> "start"]
    /\ clock = [c \in Clients |-> 0]
    /\ req = [c \in Clients |-> "none"]
    /\ resp = [c \in Clients |-> <<>>]
    /\ at = "drain" /\ cur = None /\ index = 1
    /\ backlog = <<>> /\ pending = <<>>
    /\ active = 0 /\ progressed = FALSE
    /\ elapsed = FALSE /\ closed = FALSE /\ overdue = FALSE /\ busied = FALSE
    /\ worker = [c \in Clients |-> "none"]
    /\ done = 0 /\ wake = FALSE
    /\ ran = {} /\ faults = 0

-----------------------------------------------------------------------------
(* The client: try_service_with.                                           *)

(* A client that is done closes its stream: what it has not read is lost. *)
Become(c, p) ==
    /\ pc' = [pc EXCEPT ![c] = p]
    /\ resp' = IF p \in Outcome THEN [resp EXCEPT ![c] = <<>>] ELSE resp

ReadOn(c, p) ==
    /\ pc' = [pc EXCEPT ![c] = p]
    /\ resp' = [resp EXCEPT ![c] = Tail(@)]

ClientOnly == UNCHANGED <<clock, faults, threads, stop,
                          at, cur, index, pending, active, progressed>>

(* connect_system: the connection is in the listener's backlog as soon as  *)
(* connect returns.  A query too long for a request never gets this far,   *)
(* like a socket nobody listens on.                                        *)
Connect(c) ==
    /\ pc[c] = "start"
    /\ \/ /\ Listening /\ clock[c] = 0
          /\ Become(c, "connected")
          /\ backlog' = Append(backlog, c)
       \/ /\ c \notin Strangers
          /\ \E p \in {"absent", "failed"} : Become(c, p)
          /\ UNCHANGED backlog
    /\ UNCHANGED req
    /\ ClientOnly

(* finish_connected drops a connection made too late, validate_peer_with   *)
(* one whose peer it cannot verify; a request that cannot be encoded ends  *)
(* the exchange before it begins.                                          *)
BeginExchange(c) ==
    /\ c \notin Strangers
    /\ pc[c] = "connected"
    /\ \/ clock[c] = 0 /\ Become(c, "writing")
       \/ clock[c] > 0 /\ \E p \in {"absent", "unsent"} : Become(c, p)
       \/ Become(c, "failed")
    /\ UNCHANGED <<req, backlog>>
    /\ ClientOnly

(* write_all_nonblocking_with_deadline: the deadline is read before every  *)
(* write, and once more after the last byte.                               *)
WriteRequest(c) ==
    /\ c \notin Strangers
    /\ pc[c] = "writing"
    /\ \/ /\ clock[c] = 0 /\ ServiceOpen(c)
          /\ \E r \in {"part", "whole"} \ {req[c]} :
                /\ req' = [req EXCEPT ![c] = r]
                /\ Become(c, IF r = "whole" THEN "written" ELSE "writing")
       \/ clock[c] = 0 /\ ~ServiceOpen(c) /\ Become(c, "failed") /\ UNCHANGED req
       \/ clock[c] > 0 /\ Become(c, "unsent") /\ UNCHANGED req
    /\ UNCHANGED backlog
    /\ ClientOnly

FinishWrite(c) ==
    /\ pc[c] = "written"
    /\ Become(c, IF clock[c] = 0 THEN "reading" ELSE "late")
    /\ UNCHANGED <<req, backlog>>
    /\ ClientOnly

(* read_frame_nonblocking_with_deadline: from here on the deadline means   *)
(* ResponseDeadlineAfterRequestDelivery, which is a failure.               *)
ReadResponse(c) ==
    /\ pc[c] = "reading"
    /\ \/ /\ clock[c] = 0 /\ resp[c] # <<>>
          /\ IF Head(resp[c]) = "Accepted" THEN ReadOn(c, "waiting") ELSE Become(c, "failed")
       \/ /\ clock[c] > 0 \/ (resp[c] = <<>> /\ ~ServiceOpen(c))
          /\ Become(c, "failed")
    /\ UNCHANGED <<req, backlog>>
    /\ ClientOnly

(* receive_completion; the ten minutes may be over at any time. *)
ReadCompletion(c) ==
    /\ pc[c] = "waiting"
    /\ \/ resp[c] # <<>> /\ Become(c, "completed")
       \/ Become(c, "failed")
    /\ UNCHANGED <<req, backlog>>
    /\ ClientOnly

(* A peer that is not the yams client: it writes anything, or nothing. *)
StrangerWrites(c) ==
    /\ c \in Strangers
    /\ pc[c] = "connected" /\ ServiceOpen(c)
    /\ \/ req[c] = "none" /\ \E r \in {"part", "whole", "bad"} : req' = [req EXCEPT ![c] = r]
       \/ req[c] = "part" /\ \E r \in {"whole", "bad"} : req' = [req EXCEPT ![c] = r]
    /\ UNCHANGED <<pc, resp, backlog>>
    /\ ClientOnly

(* A client is killed, a stranger hangs up. *)
ClientGone(c) ==
    /\ "hang up" \in EnvOps
    /\ ClientOpen(c)
    /\ Become(c, "gone")
    /\ UNCHANGED <<req, backlog>>
    /\ ClientOnly

ClientStep(c) ==
    \/ Connect(c) \/ BeginExchange(c) \/ WriteRequest(c) \/ FinishWrite(c)
    \/ ReadResponse(c) \/ ReadCompletion(c) \/ StrangerWrites(c) \/ ClientGone(c)

-----------------------------------------------------------------------------
(* Time. *)

Accepted(c) == In(c, pending) \/ cur = c

DeadlinePasses(c) ==
    /\ pc[c] \notin Outcome /\ c \notin Strangers
    /\ clock[c] = 0
    /\ clock' = [clock EXCEPT ![c] = 1]
    /\ UNCHANGED <<pc, req, resp, loop, stop, threads, faults>>

AdmissionExpires(c) ==
    /\ clock[c] = 1 \/ (clock[c] = 0 /\ (pc[c] \in Outcome \/ c \in Strangers))
    /\ Accepted(c)
    /\ clock' = [clock EXCEPT ![c] = 2]
    /\ UNCHANGED <<pc, req, resp, loop, stop, threads, faults>>

IdleTimeoutPasses ==
    /\ "idle" \in EnvOps
    /\ ~elapsed /\ Listening
    /\ elapsed' = TRUE
    /\ UNCHANGED <<client, resp, loop, threads, closed, overdue, busied, faults>>

DrainTimeoutPasses ==
    /\ closed /\ ~overdue /\ Listening
    /\ overdue' = TRUE
    /\ UNCHANGED <<client, resp, loop, threads, elapsed, closed, busied, faults>>

-----------------------------------------------------------------------------
(* The service loop: serve_until.                                          *)

LoopOnly == UNCHANGED <<client, overdue, ran, faults>>

(* reject_bounded: a peer that has hung up hears nothing, and either way   *)
(* the stream is dropped.                                                  *)
RejectBounded(c) ==
    resp' = IF ClientOpen(c) THEN [resp EXCEPT ![c] = Append(@, "Rejected")] ELSE resp

(* FrameReader: bytes that are no frame or no request, and a peer that     *)
(* hangs up before the frame is whole.                                     *)
FrameFails(c) == req[c] = "bad" \/ (req[c] # "whole" /\ ~ClientOpen(c))

(* A mutant: nothing expires. *)
PollNeverExpires(c) ==
    IF req[c] = "whole" THEN "Complete"
    ELSE IF FrameFails(c) THEN "Failed"
    ELSE "Incomplete"

(* poll_live_admission and poll_admission. *)
PollLiveAdmission(c) ==
    IF clock[c] = 2 THEN "Expired"
    ELSE IF req[c] = "whole" THEN "Complete"
    ELSE IF FrameFails(c) THEN "Failed"
    ELSE "Incomplete"

(* A mutant: a received completion does not count as progress. *)
ReceiveSilently ==
    /\ at = "drain"
    /\ active' = active - done
    /\ done' = 0
    /\ progressed' = FALSE
    /\ at' = "check"
    /\ UNCHANGED <<cur, index, backlog, pending, resp, worker, wake, elapsed, closed, busied>>
    /\ LoopOnly

(* The loop receives every completion on the channel. *)
ReceiveCompletions ==
    /\ at = "drain"
    /\ active' = active - done
    /\ done' = 0
    /\ progressed' = (done > 0)
    /\ at' = "check"
    /\ UNCHANGED <<cur, index, backlog, pending, resp, worker, wake, elapsed, closed, busied>>
    /\ LoopOnly

(* Mutants: return at once, and wait for the workers without a bound. *)
CheckLeavesWorkers ==
    /\ at = "check"
    /\ \/ ~closed /\ at' = "poll" /\ UNCHANGED <<pending, backlog>>
       \/ /\ closed /\ pending' = <<>>
          /\ IF TRUE
             THEN at' = "returned" /\ backlog' = <<>>
             ELSE at' = "drain" /\ UNCHANGED backlog
    /\ UNCHANGED <<cur, index, active, progressed, resp, worker, done, wake, elapsed, closed, busied>>
    /\ LoopOnly

CheckWaitsForever ==
    /\ at = "check"
    /\ \/ ~closed /\ at' = "poll" /\ UNCHANGED <<pending, backlog>>
       \/ /\ closed /\ pending' = <<>>
          /\ IF active = 0
             THEN at' = "returned" /\ backlog' = <<>>
             ELSE at' = "drain" /\ UNCHANGED backlog
    /\ UNCHANGED <<cur, index, active, progressed, resp, worker, done, wake, elapsed, closed, busied>>
    /\ LoopOnly

(* After a stop request: drop the pending admissions and wait for the      *)
(* workers, thirty seconds at most.                                        *)
CheckShutdown ==
    /\ at = "check"
    /\ \/ ~closed /\ at' = "poll" /\ UNCHANGED <<pending, backlog>>
       \/ /\ closed /\ pending' = <<>>
          /\ IF active = 0 \/ overdue
             THEN at' = "returned" /\ backlog' = <<>>
             ELSE at' = "drain" /\ UNCHANGED backlog
    /\ UNCHANGED <<cur, index, active, progressed, resp, worker, done, wake, elapsed, closed, busied>>
    /\ LoopOnly

(* One pending admission; a complete request goes on to its reservation if *)
(* there is a slot for it.                                                 *)
PollPending ==
    /\ at = "poll" /\ cur = None
    /\ ~closed /\ index <= Len(pending)
    /\ LET c == pending[index]
           outcome == PollLiveAdmission(c)
       IN  /\ IF outcome = "Incomplete"
              THEN index' = index + 1 /\ UNCHANGED <<pending, progressed>>
              ELSE pending' = Without(pending, index) /\ progressed' = TRUE /\ UNCHANGED index
           /\ IF outcome = "Complete" /\ active < MaxActive
              THEN cur' = c /\ at' = "reserve" /\ UNCHANGED resp
              ELSE /\ UNCHANGED <<cur, at>>
                   /\ IF outcome = "Incomplete" THEN UNCHANGED resp ELSE RejectBounded(c)
    /\ UNCHANGED <<backlog, active, worker, done, wake, elapsed, closed, busied>>
    /\ LoopOnly

(* The scan of pending is over, or a stop request cuts it short. *)
EndPoll ==
    /\ at = "poll"
    /\ closed \/ index > Len(pending)
    /\ at' = IF closed THEN "drain" ELSE "accept"
    /\ index' = 1
    /\ UNCHANGED <<cur, backlog, pending, active, progressed, resp,
                   worker, done, wake, elapsed, closed, busied>>
    /\ LoopOnly

(* A mutant: no reservation is taken. *)
ReserveUnchecked ==
    /\ at \in {"reserve", "reserve new"}
    /\ cur' = None
    /\ IF FALSE
       THEN at' = "drain" /\ UNCHANGED <<active, worker, busied>>
       ELSE /\ at' = IF at = "reserve" THEN "poll" ELSE "idle"
            /\ active' = active + 1
            /\ worker' = [worker EXCEPT ![cur] = "accept"]
            /\ busied' = TRUE
    /\ UNCHANGED <<index, backlog, pending, progressed, resp, done, wake, elapsed, closed>>
    /\ LoopOnly

(* try_reserve_execution, under the lock of the token, and spawn_execution.*)
(* After it the turn goes on where the request came from: with the next    *)
(* pending admission, or, for a new connection, with the idle check.       *)
ReserveExecution ==
    /\ at \in {"reserve", "reserve new"}
    /\ cur' = None
    /\ IF closed
       THEN at' = "drain" /\ UNCHANGED <<active, worker, busied>>
       ELSE /\ at' = IF at = "reserve" THEN "poll" ELSE "idle"
            /\ active' = active + 1
            /\ worker' = [worker EXCEPT ![cur] = "accept"]
            /\ busied' = TRUE
    /\ UNCHANGED <<index, backlog, pending, progressed, resp, done, wake, elapsed, closed>>
    /\ LoopOnly

AcceptConnection ==
    /\ at = "accept"
    /\ IF closed \/ backlog = <<>>
       THEN at' = (IF closed THEN "drain" ELSE "idle") /\ UNCHANGED <<cur, backlog>>
       ELSE at' = "admit" /\ cur' = Head(backlog) /\ backlog' = Tail(backlog)
    /\ UNCHANGED <<index, pending, active, progressed, resp,
                   worker, done, wake, elapsed, closed, busied>>
    /\ LoopOnly

(* A peer whose credentials do not check out is dropped without a word and *)
(* without counting as progress.                                           *)
RefusePeer ==
    /\ "refuse" \in EnvOps
    /\ at = "admit"
    /\ at' = "idle" /\ cur' = None
    /\ UNCHANGED <<index, backlog, pending, active, progressed, resp,
                   worker, done, wake, elapsed, closed, busied>>
    /\ LoopOnly

(* A mutant: the evicted connection stays pending. *)
AdmitKeepsEvicted ==
    /\ at = "admit"
    /\ LET outcome == PollLiveAdmission(cur) IN
       \/ /\ closed
          /\ at' = "drain" /\ cur' = None
          /\ UNCHANGED <<pending, progressed, resp, busied>>
       \/ /\ ~closed /\ outcome = "Complete" /\ active < MaxActive
          /\ at' = "reserve new" /\ progressed' = TRUE
          /\ UNCHANGED <<cur, pending, resp, busied>>
       \/ /\ ~closed
          /\ outcome \in {"Failed", "Expired"} \/ (outcome = "Complete" /\ active >= MaxActive)
          /\ RejectBounded(cur)
          /\ at' = "idle" /\ cur' = None /\ progressed' = TRUE /\ busied' = TRUE
          /\ UNCHANGED pending
       \/ /\ ~closed /\ outcome = "Incomplete"
          /\ IF Len(pending) = MaxPending
             THEN RejectBounded(Head(pending)) /\ pending' = pending
             ELSE UNCHANGED resp /\ pending' = Append(pending, cur)
          /\ at' = "idle" /\ cur' = None /\ progressed' = TRUE /\ busied' = TRUE
    /\ UNCHANGED <<index, backlog, active, worker, done, wake, elapsed, closed>>
    /\ LoopOnly

(* The first poll of a new connection; one more unfinished request than    *)
(* fits evicts the oldest.                                                 *)
AdmitConnection ==
    /\ at = "admit"
    /\ LET outcome == PollLiveAdmission(cur) IN
       \/ /\ closed
          /\ at' = "drain" /\ cur' = None
          /\ UNCHANGED <<pending, progressed, resp, busied>>
       \/ /\ ~closed /\ outcome = "Complete" /\ active < MaxActive
          /\ at' = "reserve new" /\ progressed' = TRUE
          /\ UNCHANGED <<cur, pending, resp, busied>>
       \/ /\ ~closed
          /\ outcome \in {"Failed", "Expired"} \/ (outcome = "Complete" /\ active >= MaxActive)
          /\ RejectBounded(cur)
          /\ at' = "idle" /\ cur' = None /\ progressed' = TRUE /\ busied' = TRUE
          /\ UNCHANGED pending
       \/ /\ ~closed /\ outcome = "Incomplete"
          /\ IF Len(pending) = MaxPending
             THEN RejectBounded(Head(pending)) /\ pending' = Append(Tail(pending), cur)
             ELSE UNCHANGED resp /\ pending' = Append(pending, cur)
          /\ at' = "idle" /\ cur' = None /\ progressed' = TRUE /\ busied' = TRUE
    /\ UNCHANGED <<index, backlog, active, worker, done, wake, elapsed, closed>>
    /\ LoopOnly

(* idle_since starts anew after any turn with work in it or progress, and  *)
(* a full idle_timeout without either stops the service.                   *)
IdleShutdown == active = 0 /\ pending = <<>> /\ ~progressed /\ elapsed

(* A mutant: the completion pipe is drained before the wait. *)
CheckIdleDrains ==
    /\ at = "idle"
    /\ IF IdleShutdown
       THEN closed' = TRUE /\ at' = "drain" /\ UNCHANGED <<elapsed, busied>>
       ELSE /\ at' = IF progressed THEN "drain" ELSE "wait"
            /\ IF active > 0 \/ pending # <<>> \/ progressed
               THEN elapsed' = FALSE /\ busied' = (active > 0 \/ pending # <<>>)
               ELSE UNCHANGED <<elapsed, busied>>
            /\ UNCHANGED closed
    /\ UNCHANGED <<cur, index, backlog, pending, active, progressed, resp, worker, done>>
    /\ wake' = FALSE
    /\ LoopOnly

CheckIdle ==
    /\ at = "idle"
    /\ IF IdleShutdown
       THEN closed' = TRUE /\ at' = "drain" /\ UNCHANGED <<elapsed, busied>>
       ELSE /\ at' = IF progressed THEN "drain" ELSE "wait"
            /\ IF active > 0 \/ pending # <<>> \/ progressed
               THEN elapsed' = FALSE /\ busied' = (active > 0 \/ pending # <<>>)
               ELSE UNCHANGED <<elapsed, busied>>
            /\ UNCHANGED closed
    /\ UNCHANGED <<cur, index, backlog, pending, active, progressed, resp, worker, done, wake>>
    /\ LoopOnly

(* wait_for_service_event and drain_completion_pipe.  The wait ends with   *)
(* an event or after SHUTDOWN_POLL_BOUND, so it always may end.            *)
WaitForServiceEvent ==
    /\ at = "wait"
    /\ at' = "drain"
    /\ wake' = FALSE
    /\ UNCHANGED <<cur, index, backlog, pending, active, progressed, resp,
                   worker, done, elapsed, closed, busied>>
    /\ LoopOnly

(* A failing accept, poll or set_nonblocking makes serve_until return with *)
(* an error, without a drain.                                              *)
ListenerFails ==
    /\ "error" \in EnvOps /\ faults < MaxFaults
    /\ at \in {"accept", "admit", "wait"}
    /\ faults' = faults + 1
    /\ at' = "returned" /\ cur' = None
    /\ backlog' = <<>> /\ pending' = <<>>
    /\ UNCHANGED <<client, resp, index, active, progressed, threads, stop>>

LoopStep ==
    \/ ReceiveCompletions \/ CheckShutdown \/ PollPending \/ EndPoll \/ ReserveExecution
    \/ AcceptConnection \/ RefusePeer \/ AdmitConnection \/ CheckIdle \/ WaitForServiceEvent

-----------------------------------------------------------------------------
(* A worker: spawn_execution, execute_request and the drop of SlotGuard.   *)

WorkerOnly == UNCHANGED <<client, loop, stop, faults>>

WorkerTo(c, s) == worker' = [worker EXCEPT ![c] = s]

(* A send or the socket options before it fail: because the client is gone *)
(* or otherwise, and then the client is left without an answer.            *)
MayNotSend(c) == ~ClientOpen(c) \/ "error" \in EnvOps

(* A mutant: the slot is not released when Accepted cannot be sent. *)
SendAcceptedUnguarded(c) ==
    /\ worker[c] = "accept"
    /\ \/ /\ ClientOpen(c)
          /\ resp' = [resp EXCEPT ![c] = Append(@, "Accepted")]
          /\ WorkerTo(c, "handle") /\ ran' = ran \cup {c}
       \/ MayNotSend(c) /\ WorkerTo(c, "ended") /\ UNCHANGED <<resp, ran>>
    /\ UNCHANGED <<done, wake>>
    /\ WorkerOnly

(* Accepted goes out before the handler runs; when it cannot be sent, the  *)
(* handler is not run.                                                     *)
SendAccepted(c) ==
    /\ worker[c] = "accept"
    /\ \/ /\ ClientOpen(c)
          /\ resp' = [resp EXCEPT ![c] = Append(@, "Accepted")]
          /\ WorkerTo(c, "handle") /\ ran' = ran \cup {c}
       \/ MayNotSend(c) /\ WorkerTo(c, "send") /\ UNCHANGED <<resp, ran>>
    /\ UNCHANGED <<done, wake>>
    /\ WorkerOnly

(* The handler returns or panics; the completion says which. *)
RunHandler(c) ==
    /\ worker[c] = "handle"
    /\ WorkerTo(c, "complete")
    /\ UNCHANGED <<resp, ran, done, wake>>
    /\ WorkerOnly

(* Output that does not fit a response becomes the output-limit completion,*)
(* so one Completed is sent unless sending fails.  The stream is dropped.  *)
SendCompleted(c) ==
    /\ worker[c] = "complete"
    /\ \/ ClientOpen(c) /\ resp' = [resp EXCEPT ![c] = Append(@, "Completed")]
       \/ MayNotSend(c) /\ UNCHANGED resp
    /\ WorkerTo(c, "send")
    /\ UNCHANGED <<ran, done, wake>>
    /\ WorkerOnly

(* SlotGuard::drop: first the channel, then the pipe. *)
ReleaseSlot(c) ==
    /\ worker[c] = "send"
    /\ done' = done + 1
    /\ WorkerTo(c, "wake")
    /\ UNCHANGED <<resp, ran, wake>>
    /\ WorkerOnly

WakeLoop(c) ==
    /\ worker[c] = "wake"
    /\ wake' = TRUE
    /\ WorkerTo(c, "ended")
    /\ UNCHANGED <<resp, ran, done>>
    /\ WorkerOnly

WorkerStep(c) ==
    SendAccepted(c) \/ RunHandler(c) \/ SendCompleted(c) \/ ReleaseSlot(c) \/ WakeLoop(c)

-----------------------------------------------------------------------------
(* The process.                                                            *)

(* ShutdownToken::request from another thread. *)
RequestShutdown ==
    /\ "stop" \in EnvOps
    /\ ~closed /\ Listening
    /\ closed' = TRUE
    /\ UNCHANGED <<client, resp, loop, threads, elapsed, overdue, busied, faults>>

(* The end of the process takes its threads, streams and memory with it. *)
EndProcess ==
    /\ at' = "exited" /\ cur' = None /\ index' = 1
    /\ backlog' = <<>> /\ pending' = <<>>
    /\ active' = 0 /\ progressed' = FALSE /\ done' = 0 /\ wake' = FALSE
    /\ elapsed' = FALSE /\ busied' = FALSE
    /\ worker' = [c \in Clients |-> IF worker[c] \in Running THEN "killed"
                                   ELSE IF worker[c] = "wake" THEN "ended" ELSE worker[c]]
    /\ UNCHANGED <<client, resp, ran, closed, overdue>>

(* main returns after serve_until. *)
ExitProcess ==
    /\ at = "returned"
    /\ EndProcess
    /\ UNCHANGED faults

KillService ==
    /\ "kill" \in EnvOps /\ faults < MaxFaults
    /\ Listening
    /\ EndProcess
    /\ faults' = faults + 1

Finished == at = "exited" /\ UNCHANGED vars

Next ==
    \/ \E c \in Clients : \/ ClientStep(c) \/ WorkerStep(c)
                          \/ DeadlinePasses(c) \/ AdmissionExpires(c)
    \/ LoopStep
    \/ IdleTimeoutPasses \/ DrainTimeoutPasses
    \/ RequestShutdown \/ ListenerFails \/ ExitProcess \/ KillService
    \/ Finished

Spec == Init /\ [][Next]_vars

(* The loop and the workers run, time passes; nothing is assumed of        *)
(* clients, strangers and the handler.                                     *)
FairSpec ==
    /\ Spec
    /\ WF_vars(LoopStep) /\ WF_vars(ExitProcess) /\ WF_vars(DrainTimeoutPasses)
    /\ \A c \in Clients :
        /\ WF_vars(DeadlinePasses(c)) /\ WF_vars(AdmissionExpires(c))
        /\ WF_vars(SendAccepted(c)) /\ WF_vars(SendCompleted(c))
        /\ WF_vars(ReleaseSlot(c)) /\ WF_vars(WakeLoop(c))

-----------------------------------------------------------------------------
(* Properties.                                                             *)

(* The loop's count of slots is the workers that have not released theirs  *)
(* plus the releases it has not received, and never exceeds MaxActive: no  *)
(* path of execute_request loses a slot or returns one twice, and at most  *)
(* MaxActive handlers run at once.  No more than MaxPending admissions     *)
(* wait: serve_until evicts the oldest one before it adds another.         *)
SlotsAccounted ==
    at # "exited" =>
        /\ active = Cardinality(Workers(Running)) + done
        /\ active <= MaxActive
        /\ Len(pending) <= MaxPending

(* The loop never waits over a finished worker: when a completion is on    *)
(* the channel, the pipe holds a byte or its worker is about to write one  *)
(* (SlotGuard::drop against drain_completion_pipe).                        *)
NoLostWakeup ==
    (at = "wait" /\ done > 0) => (wake \/ Workers({"wake"}) # {})

(* A client told that its request was rejected, as busy, too slow or       *)
(* invalid, has not had it executed and hears nothing else; and one that   *)
(* falls back because no service answered, or because its request was not  *)
(* written in time, does not get it executed by the service as well        *)
(* (reject_bounded and try_service against poll_admission and              *)
(* execute_request).                                                       *)
RefusedNeverRan ==
    \A c \in Clients :
        /\ In("Rejected", resp[c]) => c \notin ran /\ Len(resp[c]) = 1
        /\ pc[c] \in {"absent", "unsent"} => c \notin ran

(* A client that executes its request itself does not have it executed by  *)
(* the service as well: the promise of try_service for the answer None.    *)
DirectOnlyIfNeverRun ==
    \A c \in Clients : pc[c] \in Direct => c \notin ran

(* The process ends under a running worker only when it is killed, its     *)
(* listener failed, or the worker exceeded the thirty seconds of the drain *)
(* (serve_until after a stop request).                                     *)
ShutdownDrains ==
    Workers({"killed"}) # {} => faults > 0 \/ overdue

(* Once the stop token is closed no request is given to a worker, however  *)
(* far its admission had come (try_reserve_execution).                     *)
NoAdmissionAfterShutdown ==
    [][closed => Workers({"none"})' = Workers({"none"})]_vars

(* The service stops for idleness only when no request has been pending or *)
(* executing since idle_since: time spent working never counts as idle     *)
(* (the idle check of serve_until).                                        *)
IdleShutdownIsIdle ==
    [][(at = "idle" /\ at' = "drain" /\ closed' # closed)
        => ~busied /\ Workers(Running) = {}]_vars

(* No connection stays pending for ever, whatever its peer does: the       *)
(* request arrives, fails, expires or is evicted (poll_live_admission).    *)
AdmissionEnds ==
    \A c \in Clients : In(c, pending) ~> ~In(c, pending)

(* A stop request ends the process even if a handler never returns.        *)
ShutdownEnds == closed ~> at = "exited"

=============================================================================
