-------------------------- MODULE CallbackContract --------------------------
(* What the scheduler promises the thread that submits a request, without   *)
(* any of the machinery: include/s2pro/scheduler.h:28-32 (the audio         *)
(* callback) and the cancellation contract of src/sched/scheduler.c:16-20.  *)
(*                                                                          *)
(* A request is accepted once; while it is open its callback runs, one      *)
(* invocation at a time; the stream is over after the final chunk or after  *)
(* a callback that returned nonzero, and an over stream gets no callback;   *)
(* once a cancel is acknowledged no callback runs or will run; the request  *)
(* record is released only when its stream is over or somebody asked to     *)
(* cancel it, and never under a running callback.                           *)
CONSTANT Req

VARIABLES
  phase,  \* phase[r]: "new", "open" or "released"
  busy,   \* the requests whose callback is running
  over,   \* the requests whose client has been told the stream ended, or left
  asked,  \* the requests some thread has asked to cancel
  acked   \* the requests whose cancel returned S2P_OK

vars == <<phase, busy, over, asked, acked>>

TypeOK ==
  /\ phase \in [Req -> {"new", "open", "released"}]
  /\ busy \subseteq Req /\ over \subseteq Req
  /\ asked \subseteq Req /\ acked \subseteq Req

Init ==
  /\ phase = [r \in Req |-> "new"]
  /\ busy = {} /\ over = {} /\ asked = {} /\ acked = {}

Accept(r) ==
  /\ phase[r] = "new"
  /\ phase' = [phase EXCEPT ![r] = "open"]
  /\ UNCHANGED <<busy, over, asked, acked>>

Invoke(r) ==
  /\ phase[r] = "open"
  /\ busy = {}                    \* one worker thread: callbacks never overlap
  /\ r \notin over \cup acked
  /\ busy' = {r}
  /\ UNCHANGED <<phase, over, asked, acked>>

Return(r) ==
  /\ r \in busy
  /\ busy' = busy \ {r}
  /\ over' \in {over, over \cup {r}}
  /\ UNCHANGED <<phase, asked, acked>>

Ask(r) ==
  /\ phase[r] # "new"
  /\ asked' = asked \cup {r}
  /\ acked' \in {acked, acked \cup ({r} \ busy)}
  /\ UNCHANGED <<phase, busy, over>>

Acknowledge(r) ==
  /\ r \in asked \ busy
  /\ acked' = acked \cup {r}
  /\ UNCHANGED <<phase, busy, over, asked>>

Release(r) ==
  /\ phase[r] = "open"
  /\ r \in (over \cup asked) \ busy
  /\ phase' = [phase EXCEPT ![r] = "released"]
  /\ UNCHANGED <<busy, over, asked, acked>>

Next ==
  \E r \in Req :
    Accept(r) \/ Invoke(r) \/ Return(r) \/ Ask(r) \/ Acknowledge(r) \/ Release(r)

Spec == Init /\ [][Next]_vars
=============================================================================
