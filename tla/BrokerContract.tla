--------------------------- MODULE BrokerContract ---------------------------
(***************************************************************************)
(* What a service broker promises its client, whatever it is built on: an  *)
(* operation takes effect at one instant, and its status tells what it     *)
(* found at that instant.  A 5xx tells nothing of the effect.              *)
(***************************************************************************)
CONSTANTS Workers, Request, None

VARIABLES
    instances, \* the service instances
    bound,     \* the pairs <<instance, binding>>
    asked,     \* worker -> the request in progress
    answered   \* worker -> the status it will be answered with

vars == <<instances, bound, asked, answered>>

Init ==
    /\ instances = {} /\ bound = {}
    /\ asked = [w \in Workers |-> None]
    /\ answered = [w \in Workers |-> None]

Binding(q) == <<q.instance, q.binding>>

Status(q) ==
    CASE q.op = "provision"   -> IF q.instance \in instances THEN 409 ELSE 201
      [] q.op = "unprovision" -> IF q.instance \in instances THEN 200 ELSE 410
      [] q.op = "unbind"      -> IF Binding(q) \in bound THEN 200 ELSE 410
      [] q.op = "bind"        -> IF q.instance \notin instances THEN 404
                                 ELSE IF Binding(q) \in bound THEN 409 ELSE 201

Effect(q) ==
    /\ instances' = CASE q.op = "provision"   -> instances \cup {q.instance}
                      [] q.op = "unprovision" -> instances \ {q.instance}
                      [] OTHER                -> instances
    /\ bound' = CASE q.op = "bind" /\ q.instance \in instances ->
                       bound \cup {Binding(q)}
                  [] q.op = "unbind" -> bound \ {Binding(q)}
                  [] q.op = "unprovision" -> {b \in bound : b[1] # q.instance}
                  [] OTHER -> bound

Ask(w) ==
    /\ asked[w] = None
    /\ \E q \in Request : asked' = [asked EXCEPT ![w] = q]
    /\ UNCHANGED <<instances, bound, answered>>

Perform(w) ==
    /\ asked[w] # None /\ answered[w] = None
    /\ Effect(asked[w])
    /\ answered' = [answered EXCEPT ![w] = Status(asked[w])]
    /\ UNCHANGED asked

Fail(w) ==
    /\ asked[w] # None
    /\ \/ answered[w] = None /\ Effect(asked[w])
       \/ UNCHANGED <<instances, bound>>
    /\ \E status \in {500, 502, 504} :
          answered' = [answered EXCEPT ![w] = status]
    /\ UNCHANGED asked

Deliver(w) ==
    /\ answered[w] # None
    /\ asked' = [asked EXCEPT ![w] = None]
    /\ answered' = [answered EXCEPT ![w] = None]
    /\ UNCHANGED <<instances, bound>>

Crash ==
    /\ asked' = [w \in Workers |-> None]
    /\ answered' = [w \in Workers |-> None]
    /\ UNCHANGED <<instances, bound>>

Next == Crash \/ \E w \in Workers : Ask(w) \/ Perform(w) \/ Fail(w) \/ Deliver(w)

Spec == Init /\ [][Next]_vars
=============================================================================
