------------------------- MODULE MCForwardEvidence -------------------------
(* ForwardEvidence for TLC: small books, alerts and histories of commits.  *)
EXTENDS ForwardEvidence

Level(price, quantity) == [price |-> price, quantity |-> quantity]
Ladders(yes, no)       == [YES |-> yes, NO |-> no]

\* Two books whose asks hold half a contract at the best price.  For Deep
\* both candidates find the other half within their limits; for Staged only
\* the one that trusts its model more.
Deep   == Ladders({Level(2900, 4)}, {Level(6500, 1), Level(6400, 1),
                                     Level(2000, 2)})
Staged == Ladders({Level(2900, 4)}, {Level(6500, 1), Level(5000, 2)})

Finding(book, active, stale) == [book |-> book, active |-> active, stale |-> stale]
Varied   == {Finding(Staged, TRUE, FALSE), Finding(Staged, FALSE, FALSE)}
Sound    == {Finding(Deep, TRUE, FALSE), Finding(Deep, FALSE, FALSE)}

Alert(model, city, lead) ==
  [model |-> model, city |-> city, lead |-> lead, observed |-> TRUE]
OneAlert  == [m \in Markets |-> Alert(9000, "nyc", 0)]
TwoAlerts == [m \in Markets |-> IF m = CHOOSE x \in Markets : TRUE
                                THEN Alert(9000, "nyc", 0)
                                ELSE Alert(9000, "chi", 1)]

\* The code and the policy change, the policy with and without its version;
\* one commit tracks the manifests that go with it.
P1 == [version |-> "v1", code |-> "P"]
P2 == [version |-> "v2", code |-> "Q"]
P3 == [version |-> "v1", code |-> "R"]
Start   == CommitOf("A", P1, NoFile, NoPolicy)
Later   == {CommitOf("B", P2, NoFile, NoPolicy), CommitOf("B", P3, "B", P3)}
Tracked == CommitOf("A", P1, "A", P1)

OneDay   == [n \in 1 .. MaxBatches |-> 1]
OneADay  == [n \in 1 .. MaxBatches |-> n]

Strong == [populations |-> TRUE, beatsModel |-> TRUE, calibrated |-> TRUE,
           stable |-> TRUE, addsValue |-> TRUE, beatsMarket |-> TRUE,
           confident |-> TRUE, operational |-> TRUE]
Least  == [days |-> 2, events |-> 2, settled |-> 2, cities |-> 2,
           horizons |-> 2]
=============================================================================
