---------------------------- MODULE ControlService ----------------------------
(***************************************************************************)
(* What the control operations of a client promise to the goroutines that  *)
(* use it, without cache, handles, shared values and mutex: a request is   *)
(* sent at most once, as it was made; one request is outstanding on the    *)
(* connection at a time; an integer is sent to integer controls only.      *)
(***************************************************************************)
EXTENDS Naturals

CONSTANTS
  Thread,   \* goroutines that use the client
  CtlType,  \* the type of ctlVal that the server has for each reference
  Request   \* requests that goroutines make: a kind, a reference and a value

VARIABLES
  pending,  \* per goroutine, the request whose call has not returned, if any
  sent      \* per goroutine, the message that the server has not answered, if any

vars == <<pending, sent>>

Init ==
  /\ pending = [t \in Thread |-> {}]
  /\ sent = [t \in Thread |-> {}]

\* A goroutine makes a request.
Ask(t, q) ==
  /\ pending[t] = {}
  /\ pending' = [pending EXCEPT ![t] = {q}]
  /\ UNCHANGED sent

\* The request goes to the server.
Send(t) ==
  /\ \A u \in Thread : sent[u] = {}
  /\ \E q \in pending[t] :
       /\ q.kind = "int" => CtlType[q.ref] = "int"
       /\ sent' = [sent EXCEPT ![t] = {q}]
  /\ UNCHANGED pending

\* The call returns, with the answer or with an error.
Return(t) ==
  /\ pending[t] # {}
  /\ pending' = [pending EXCEPT ![t] = {}]
  /\ sent' = [sent EXCEPT ![t] = {}]

Next ==
  \E t \in Thread :
    \/ \E q \in Request : Ask(t, q)
    \/ Send(t)
    \/ Return(t)

Spec == Init /\ [][Next]_vars

=============================================================================
