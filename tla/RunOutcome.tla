----------------------------- MODULE RunOutcome -----------------------------
(***************************************************************************)
(* What the Run store promises about the outcome of a Run, whatever        *)
(* workers, cancellations, timeouts and takeovers do: a register that is   *)
(* written once per attempt, reopened only after "blocked", and decided    *)
(* for or against an interruption by the interruption's own reason.        *)
(* Several Runs may move in one step, as when an admission fails the dead  *)
(* Runs of its session.                                                    *)
(***************************************************************************)
CONSTANT Runs

VARIABLES
  outcome,  \* the state of each Run's current attempt
  asked     \* the interruption each Run was asked for

Outcomes == {"none", "open", "completed", "failed", "blocked",
             "cancelled", "timed_out"}
Asks == {"nothing", "cancelled", "timed_out"}

Init ==
  /\ outcome = [r \in Runs |-> "none"]
  /\ asked = [r \in Runs |-> "nothing"]

Become(r, o, a) == outcome'[r] = o /\ asked'[r] = a

(* A Run is admitted. *)
Open(r) == outcome[r] = "none" /\ Become(r, "open", asked[r])

(* An interruption of an open attempt becomes durable, at most one per Run. *)
Ask(r) ==
  /\ outcome[r] = "open"
  /\ asked[r] = "nothing"
  /\ \E a \in Asks \ {"nothing"} : Become(r, "open", a)

(* The attempt ends.  An interrupted one ends as it was asked to, or fails  *)
(* because its worker is lost; it never completes or blocks.                *)
Decide(r) ==
  /\ outcome[r] = "open"
  /\ \E o \in IF asked[r] = "nothing" THEN {"completed", "failed", "blocked"}
                                      ELSE {asked[r], "failed"} :
       Become(r, o, asked[r])

(* A blocked Run is resumed. *)
Reopen(r) == outcome[r] = "blocked" /\ Become(r, "open", asked[r])

Stay(r) == Become(r, outcome[r], asked[r])

RunStep(r) == Open(r) \/ Ask(r) \/ Decide(r) \/ Reopen(r) \/ Stay(r)

Next ==
  /\ outcome' \in [Runs -> Outcomes]
  /\ asked' \in [Runs -> Asks]
  /\ \A r \in Runs : RunStep(r)

Spec == Init /\ [][Next]_<<outcome, asked>>
=============================================================================
