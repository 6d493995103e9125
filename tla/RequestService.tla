--------------------------- MODULE RequestService ---------------------------
(***************************************************************************)
(* What the database pool promises to the code that submits requests       *)
(* (Database::ExecuteStatement and Database::ExecuteTransaction): every    *)
(* request takes effect at most once and its callback runs at most once,   *)
(* after the request was submitted; a success is only reported for a       *)
(* request that took effect, and a failure only for one that did not, with *)
(* one exception: when the connection broke on the statement that decides, *)
(* nobody can tell, and the callback hears of a failure either way.        *)
(***************************************************************************)
CONSTANT Requests

VARIABLES
  status,   \* per request: unsent, sent or answered
  outcome,  \* what the callback was told: none, ok or failed
  applied,  \* the requests whose effect is in the database
  cut       \* the requests whose connection broke on the deciding statement

vars == <<status, outcome, applied, cut>>

Init ==
  /\ status = [r \in Requests |-> "unsent"]
  /\ outcome = [r \in Requests |-> "none"]
  /\ applied = {}
  /\ cut = {}

Submit(r) ==
  /\ status[r] = "unsent"
  /\ status' = [status EXCEPT ![r] = "sent"]
  /\ UNCHANGED <<outcome, applied, cut>>

Undecided(r) == status[r] = "sent" /\ r \notin applied \cup cut

Apply(r) ==
  /\ Undecided(r)
  /\ applied' = applied \cup {r}
  /\ UNCHANGED <<status, outcome, cut>>

Cut(r) ==
  /\ Undecided(r)
  /\ cut' = cut \cup {r}
  /\ applied' \in {applied, applied \cup {r}}
  /\ UNCHANGED <<status, outcome>>

Answer(r, o) ==
  /\ status[r] = "sent"
  /\ o = "ok" => r \in applied
  /\ o = "failed" => r \notin applied \/ r \in cut
  /\ status' = [status EXCEPT ![r] = "answered"]
  /\ outcome' = [outcome EXCEPT ![r] = o]
  /\ UNCHANGED <<applied, cut>>

Next ==
  \E r \in Requests :
    \/ Submit(r)
    \/ Apply(r)
    \/ Cut(r)
    \/ \E o \in {"ok", "failed"} : Answer(r, o)

Spec == Init /\ [][Next]_vars
=============================================================================
