------------------------------- MODULE RunFn -------------------------------
(***************************************************************************)
(* What JobRegistry takes run_fn for: called for one job at a time, it ends *)
(* once, by returning, by raising Cancelled, or by raising anything else,   *)
(* and it raises Cancelled only after should_cancel() was true.             *)
(***************************************************************************)
CONSTANT Job

VARIABLES call,   \* "not yet", "running", then how it ended
          asked   \* what should_cancel() answers

Ending == {"returned", "cancelled", "raised"}

Init ==
  /\ call = [j \in Job |-> "not yet"]
  /\ asked = [j \in Job |-> FALSE]

Begin(j) ==
  /\ \A k \in Job : call[k] # "running"
  /\ call[j] = "not yet"
  /\ call' = [call EXCEPT ![j] = "running"]
  /\ UNCHANGED asked

Ask(j) ==
  /\ call[j] = "running"
  /\ asked' = [asked EXCEPT ![j] = TRUE]
  /\ UNCHANGED call

End(j) ==
  /\ call[j] = "running"
  /\ \E ending \in Ending :
        /\ ending = "cancelled" => asked[j]
        /\ call' = [call EXCEPT ![j] = ending]
  /\ UNCHANGED asked

Next == \E j \in Job : Begin(j) \/ Ask(j) \/ End(j)

Spec == Init /\ [][Next]_<<call, asked>>

=============================================================================
