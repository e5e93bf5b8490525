---------------------------- MODULE EventChannel ----------------------------
(***************************************************************************)
(* What an outbox, its relay, a RabbitMQ queue and an idempotent consumer  *)
(* promise together about one event: it is written once, it reaches the    *)
(* broker only after that, it takes effect only after reaching the broker, *)
(* and none of this is ever undone.                                        *)
(***************************************************************************)
CONSTANT Events

VARIABLE phase

Phases == {"absent", "written", "published", "applied"}

Init == phase = [e \in Events |-> "absent"]

Move(e, from, to) ==
  /\ phase[e] = from
  /\ phase' = [phase EXCEPT ![e] = to]

Write(e)   == Move(e, "absent", "written")
Publish(e) == Move(e, "written", "published")
Apply(e)   == Move(e, "published", "applied")

Next == \E e \in Events : Write(e) \/ Publish(e) \/ Apply(e)

Spec == Init /\ [][Next]_phase

=============================================================================
