-------------------------- MODULE InvoiceRegistry ---------------------------
(***************************************************************************)
(* What the Document service promises of its invoices, whatever happens to *)
(* transactions, files, locks and processes: creating an invoice is one    *)
(* atomic step.  A caller that is told "created" caused exactly one new    *)
(* invoice with an id nobody else holds; one that is told "conflict" asked *)
(* for a number that was taken while it was waiting; one that is told      *)
(* "failed", or whose process died, before the step changed nothing.       *)
(***************************************************************************)
EXTENDS Naturals

CONSTANTS Callers, Numbers, Totals, Idle

VARIABLES
    registry,   \* the invoices there are
    call        \* what each caller waits for, or has been told

Call == [told : {"nothing", "created", "conflict", "failed"},
         number : Numbers, total : Totals]

Init == registry = {} /\ call = [c \in Callers |-> Idle]

Taken(n) == \E i \in registry : i.number = n

Tell(c, answer) == call' = [call EXCEPT ![c].told = answer]

Waiting(c) == call[c] # Idle /\ call[c].told = "nothing"

Ask(c) ==
    /\ call[c] = Idle
    /\ \E n \in Numbers, t \in Totals :
          call' = [call EXCEPT ![c] = [told |-> "nothing", number |-> n, total |-> t]]
    /\ UNCHANGED registry

Create(c) ==
    /\ Waiting(c) /\ ~ Taken(call[c].number)
    /\ \E new \in registry' :
          /\ new.id \in Nat \ {0} /\ \A i \in registry : i.id # new.id
          /\ registry' = registry \cup
                {[id |-> new.id, number |-> call[c].number, total |-> call[c].total]}
    /\ Tell(c, "created")

Refuse(c) ==
    /\ Waiting(c) /\ Taken(call[c].number)
    /\ Tell(c, "conflict")
    /\ UNCHANGED registry

Fail(c) == Waiting(c) /\ Tell(c, "failed") /\ UNCHANGED registry

Return(c) ==
    /\ call[c] # Idle /\ ~ Waiting(c)
    /\ call' = [call EXCEPT ![c] = Idle]
    /\ UNCHANGED registry

Clear == registry' = {} /\ UNCHANGED call

\* Everyone who was waiting for an answer never gets one.
Hangup == call' = [c \in Callers |-> Idle] /\ UNCHANGED registry

Next ==
    \/ \E c \in Callers : Ask(c) \/ Create(c) \/ Refuse(c) \/ Fail(c) \/ Return(c)
    \/ Clear
    \/ Hangup

Spec == Init /\ [][Next]_<<registry, call>>
=============================================================================
