---------------------------- MODULE ReportService ----------------------------
(***************************************************************************)
(* What report subscriptions promise to an application that keeps to the   *)
(* discipline described in ReportSubscription: no registry, no callback    *)
(* lists and no steps inside the calls, but subscriptions that are held,   *)
(* reports on their way, and the callback each connection is in.  A report *)
(* of a subscription that is held starts the callback of that subscription *)
(* and no other, and the callback comes to the handler of the subscription *)
(* unless the subscription was given up or lost in the meantime.           *)
(***************************************************************************)
EXTENDS Sequences

CONSTANTS
  Client,    \* clients, each with its own connection
  Rcb,       \* report control blocks
  HandlerId  \* identities of subscriptions

VARIABLES
  held,    \* subscriptions that the application holds
  queue,   \* per client, the RCBs of the reports on their way
  upcall   \* per client, the callback in progress, if any: the subscription it
           \* was started for, and the RCB whose handler it has called

vars == <<held, queue, upcall>>

HeldBy(c) == {g \in held : g.client = c}
Held(c, r) == {g \in HeldBy(c) : g.rcb = r}

Init ==
  /\ held = {}
  /\ queue = [c \in Client |-> <<>>]
  /\ upcall = [c \in Client |-> {}]

Obtain(c, r, i) ==
  /\ held' = (held \ Held(c, r)) \cup {[client |-> c, rcb |-> r, id |-> i]}
  /\ UNCHANGED <<queue, upcall>>

GiveUp(c, r) ==
  /\ held' = held \ Held(c, r)
  /\ UNCHANGED <<queue, upcall>>

\* The connection ends.
Lose(c) ==
  /\ held' = held \ HeldBy(c)
  /\ queue' = [queue EXCEPT ![c] = <<>>]
  /\ UNCHANGED upcall

Send(c, r) ==
  /\ queue' = [queue EXCEPT ![c] = Append(@, r)]
  /\ UNCHANGED <<held, upcall>>

\* A report of a subscription that is not held is dropped or starts a callback
\* of any identity, which Ignore may end.
Take(c) ==
  /\ queue[c] # <<>>
  /\ upcall[c] = {}
  /\ queue' = [queue EXCEPT ![c] = Tail(@)]
  /\ \/ Held(c, Head(queue[c])) = {} /\ UNCHANGED upcall
     \/ \E i \in HandlerId :
          /\ \A g \in Held(c, Head(queue[c])) : i = g.id
          /\ upcall' = [upcall EXCEPT ![c] = {[id |-> i, handler |-> {}]}]
  /\ UNCHANGED held

\* The callback calls the handler of its subscription.
Invoke(c, r) ==
  /\ \E u \in upcall[c] :
       /\ u.handler = {}
       /\ \A g \in HeldBy(c) : g.id = u.id => g.rcb = r
       /\ upcall' = [upcall EXCEPT ![c] = {[id |-> u.id, handler |-> {r}]}]
  /\ UNCHANGED <<held, queue>>

\* The callback finds no handler.
Ignore(c) ==
  /\ \E u \in upcall[c] : u.handler = {} /\ \A g \in HeldBy(c) : g.id # u.id
  /\ upcall' = [upcall EXCEPT ![c] = {}]
  /\ UNCHANGED <<held, queue>>

Return(c) ==
  /\ \E u \in upcall[c] : u.handler # {}
  /\ upcall' = [upcall EXCEPT ![c] = {}]
  /\ UNCHANGED <<held, queue>>

Next ==
  \E c \in Client :
    \/ \E r \in Rcb :
         \/ \E i \in HandlerId : Obtain(c, r, i)
         \/ GiveUp(c, r) \/ Send(c, r) \/ Invoke(c, r)
    \/ Lose(c) \/ Take(c) \/ Ignore(c) \/ Return(c)

Spec == Init /\ [][Next]_vars

\* Every report on its way is taken, and every callback ends.
FairSpec == Spec /\ \A c \in Client :
  WF_vars(Take(c) \/ Ignore(c) \/ Return(c) \/ \E r \in Rcb : Invoke(c, r))

=============================================================================
