------------------------- MODULE RequestAccounting --------------------------
(***************************************************************************)
(* What the final report promises about requests, in both modes: each one  *)
(* that reached the dispatcher is recorded in MetricsCollector once, under *)
(* one outcome, before the report is made.  A mode that may leave some out *)
(* has to say which ones: those are excused.                               *)
(***************************************************************************)
EXTENDS Sequences

CONSTANTS Requests, Outcomes

VARIABLES arrived,  \* requests the dispatcher has seen
          books,    \* what record_request has been told of each
          reported, \* metrics.finalize has been called
          excused   \* requests that the report may leave out

accountingVars == <<arrived, books, reported>>

AccountingInit ==
  /\ arrived = {}
  /\ books = [q \in Requests |-> <<>>]
  /\ reported = FALSE

Unbooked(R) == {q \in R : books[q] = <<>>}

Arrive(R) == arrived' = arrived \cup R /\ UNCHANGED <<books, reported>>

\* R may arrive in the step that books it: a rejected request does.
Book(R) ==
  /\ R \subseteq Unbooked(Requests)
  /\ arrived' = arrived \cup R
  /\ \E o \in Outcomes :
       books' = [q \in Requests |-> IF q \in R THEN <<o>> ELSE books[q]]
  /\ UNCHANGED reported

Report ==
  /\ Unbooked(arrived) \subseteq excused
  /\ reported' = TRUE
  /\ UNCHANGED <<arrived, books>>

AccountingNext ==
  ~reported /\ (Report \/ \E R \in SUBSET Requests : Arrive(R) \/ Book(R))

AccountingSpec == AccountingInit /\ [][AccountingNext]_accountingVars
=============================================================================
