------------------------------ MODULE AsyncCalls ------------------------------
(***************************************************************************)
(* What RestClient::get promises (src/restclient.h): a service that is     *)
(* opened and closed, takes calls at any time, and gives each call at most *)
(* one answer, only while it is open, and at last one if it stays open.    *)
(***************************************************************************)
EXTENDS Sequences, Functions

CONSTANT Calls

VARIABLES open,     \* is the service started?
          pending,  \* calls that were made and not answered
          answered  \* the calls that were answered, in the order of the answers

vars == <<open, pending, answered>>

Init == open = FALSE /\ pending = {} /\ answered = <<>>

Open == ~open /\ open' = TRUE /\ UNCHANGED <<pending, answered>>

Close == open /\ open' = FALSE /\ UNCHANGED <<pending, answered>>

Issue(c) ==
  /\ c \notin pending \cup Range(answered)
  /\ pending' = pending \cup {c}
  /\ UNCHANGED <<open, answered>>

Answer(c) ==
  /\ open /\ c \in pending
  /\ pending' = pending \ {c}
  /\ answered' = Append(answered, c)
  /\ UNCHANGED open

Next == Open \/ Close \/ \E c \in Calls : Issue(c) \/ Answer(c)

Spec == Init /\ [][Next]_vars

FairSpec == Spec /\ \A c \in Calls : WF_vars(Answer(c))
=============================================================================
