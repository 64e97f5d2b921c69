------------------------- MODULE MCResourceRegistry -------------------------
(***************************************************************************)
(* Workloads for checking ResourceRegistry with TLC.                       *)
(***************************************************************************)
EXTENDS ResourceRegistry, TLC

\* Reads and subscriptions share nothing but the events, which are sent in any
\* case: either both readers read, or the subscribers come and go.
MCWorkloads == {[reads |-> 1, subscriptions |-> 0],
                [reads |-> 0, subscriptions |-> 2]}

\* Readers are alike, and so are subscribers.
MCSymmetry == Permutations(Readers) \cup Permutations(Subscribers)

=============================================================================
