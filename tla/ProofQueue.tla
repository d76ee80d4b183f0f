----------------------------- MODULE ProofQueue -----------------------------
(***************************************************************************)
(* What the proof request service promises to its callers, with no ring    *)
(* buffer, clock, byte budget, lock or telemetry: a queue of numbered      *)
(* tickets in which                                                        *)
(*   - at most one request is being proved, and it is the oldest of those  *)
(*     that still wait;                                                    *)
(*   - every ticket gets one verdict, which never changes;                 *)
(*   - verdicts are delivered in ticket order, each once, none skipped;    *)
(*   - when the prover breaks, nobody is left waiting: the request being   *)
(*     proved fails and all waiting ones are canceled in the same instant, *)
(*     and a fresh prover serves only after every old verdict is gone.     *)
(* RequestService.tla is shown to implement it.                            *)
(***************************************************************************)
EXTENDS Naturals, FiniteSets

CONSTANT Capacity       \* tickets admitted and not yet delivered, at most (1, 2, ...)

VARIABLES
  admitted,    \* tickets 1 .. admitted have been accepted
  verdict,     \* of each accepted ticket: waiting, proving, a final one, or abandoned
  delivered,   \* the verdicts of tickets 1 .. delivered are with the caller
  mode         \* "serving", "broken" or "stopped"

vars == <<admitted, verdict, delivered, mode>>

Final == {"proof", "failure", "canceled"}

Waiting == {t \in 1 .. admitted : verdict[t] = "waiting"}
Proving == {t \in 1 .. admitted : verdict[t] = "proving"}

Init ==
  /\ admitted = 0
  /\ verdict = [t \in {} |-> "waiting"]
  /\ delivered = 0
  /\ mode = "serving"

Admit ==
  /\ mode = "serving"
  /\ admitted - delivered < Capacity
  /\ admitted' = admitted + 1
  /\ verdict' = [t \in 1 .. admitted + 1 |->
                   IF t = admitted + 1 THEN "waiting" ELSE verdict[t]]
  /\ UNCHANGED <<delivered, mode>>

Begin(t) ==
  /\ mode = "serving" /\ Proving = {}
  /\ t \in Waiting /\ \A u \in Waiting : t <= u
  /\ verdict' = [verdict EXCEPT ![t] = "proving"]
  /\ UNCHANGED <<admitted, delivered, mode>>

Decide(t, v) ==
  /\ mode = "serving" /\ t \in Proving /\ v \in {"proof", "failure"}
  /\ verdict' = [verdict EXCEPT ![t] = v]
  /\ UNCHANGED <<admitted, delivered, mode>>

Cancel(t) ==
  /\ Proving = {} /\ t \in Waiting
  /\ verdict' = [verdict EXCEPT ![t] = "canceled"]
  /\ UNCHANGED <<admitted, delivered, mode>>

(* The prover breaks while it proves a request, or when it is being closed *)
(* with nothing left to deliver.                                           *)
Break ==
  /\ mode = "serving" /\ mode' = "broken"
  /\ Proving # {} \/ admitted = delivered
  /\ verdict' = [t \in 1 .. admitted |->
                   CASE t \in Proving -> "failure"
                     [] t \in Waiting -> "canceled"
                     [] OTHER         -> verdict[t]]
  /\ UNCHANGED <<admitted, delivered>>

Deliver ==
  /\ Proving = {} /\ mode # "stopped"
  /\ delivered < admitted
  /\ verdict[delivered + 1] \in Final
  /\ delivered' = delivered + 1
  /\ UNCHANGED <<admitted, verdict, mode>>

Renew ==
  /\ mode = "broken" /\ delivered = admitted
  /\ mode' = "serving"
  /\ UNCHANGED <<admitted, verdict, delivered>>

(* A stop is final. Verdicts still undelivered are lost to the caller.     *)
Stop ==
  /\ Proving = {} /\ mode # "stopped"
  /\ mode' = "stopped"
  /\ verdict' = [t \in 1 .. admitted |->
                   IF t > delivered THEN "abandoned" ELSE verdict[t]]
  /\ UNCHANGED <<admitted, delivered>>

Next ==
  \/ Admit
  \/ \E t \in 1 .. admitted :
       \/ Begin(t)
       \/ Cancel(t)
       \/ \E v \in {"proof", "failure"} : Decide(t, v)
  \/ Break
  \/ Deliver
  \/ Renew
  \/ Stop

Spec == Init /\ [][Next]_vars

=============================================================================
