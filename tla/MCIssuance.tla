----------------------------- MODULE MCIssuance -----------------------------
(* Issuance for TLC: the requests and the policy files of the instances.   *)
EXTENDS Issuance, TLC

CONSTANTS c1, c2, k1, k2, w1, w2, m1, m2, t1, t2

\* A request that a matching policy grants from time 1 to time 2.
GoodRequest ==
  [client |-> c1, token |-> "valid", audienceKeys |-> {k1}, csrForm |-> "rsa", key |-> k1,
   platform |-> "oak", signedKey |-> k1, measurement |-> m1, endorsement |-> "good",
   workload |-> w1, notBefore |-> 1, notAfter |-> 2]

\* The good request, and it with one thing wrong or unusual.
AllRequests ==
  {GoodRequest}
  \cup {[GoodRequest EXCEPT !.token = x] : x \in Tokens}
  \cup {[GoodRequest EXCEPT !.csrForm = x] : x \in CsrForms}
  \cup {[GoodRequest EXCEPT !.platform = x] : x \in Platforms}
  \cup {[GoodRequest EXCEPT !.endorsement = x] : x \in Endorsements}
  \cup {[GoodRequest EXCEPT !.audienceKeys = {k2}],
        [GoodRequest EXCEPT !.signedKey = k2],
        [GoodRequest EXCEPT !.measurement = m2],
        [GoodRequest EXCEPT !.workload = w2],
        [GoodRequest EXCEPT !.notAfter = 1]}

Rule(type, measurement, max, sound) ==
  [refs |-> {[type |-> type, measurement |-> measurement]}, max |-> max, sound |-> sound]

\* A file that grants the good request, one that grants it for other evidence
\* only, with a rule for endorsements without annotations, one of another client,
\* and one that would grant it and does not parse.
MCFiles ==
  {[parses |-> TRUE, owner |-> c1, grants |-> w1 :> Rule("oak", m1, 1, TRUE)],
   [parses |-> TRUE, owner |-> c1, grants |-> w1 :> Rule("aws", m1, 2, TRUE) @@
                                              w2 :> Rule("oak", m1, 2, FALSE)],
   [parses |-> TRUE, owner |-> c2, grants |-> w1 :> Rule("oak", m1, 2, TRUE)],
   [parses |-> FALSE, owner |-> c1, grants |-> w1 :> Rule("oak", m1, 2, TRUE)]}

Parsing == {f \in MCFiles : f.parses}
Granting == {f \in Parsing : w2 \notin DOMAIN f.grants}

\* Two clients that send requests valid at once.
RacingRequests ==
  {[GoodRequest EXCEPT !.client = c, !.notBefore = 0] : c \in {c1, c2}}

MCRequests == AllRequests \cup RacingRequests

\* Three instances in one: "checks", where one thread serves one request of any kind
\* while the clock moves and the file of its client changes; and "race", where two
\* threads serve three requests of two clients, while the file of one comes and goes.
\* Files that do not parse have a case of their own, "parsing", with one good request.
VARIABLE scenario

Within ==
  CASE scenario = "checks" ->
         /\ file[c2] = Absent /\ file[c1] \in Parsing \cup {Absent}
         /\ received <= 1
         /\ \A t \in Threads : req[t] # None => t = t1 /\ req[t] \in AllRequests
    [] scenario = "parsing" ->
         /\ file[c2] = Absent /\ file[c1] \in Granting \cup (MCFiles \ Parsing)
         /\ received <= 1
         /\ \A t \in Threads : req[t] # None => t = t1 /\ req[t] = GoodRequest
    [] scenario = "race" ->
         /\ now = 0
         /\ file[c1] \in {f \in Granting : f.owner = c1}
         /\ file[c2] \in {f \in Granting : f.owner = c2} \cup {Absent}
         /\ \A t \in Threads : req[t] \in RacingRequests \cup {None}

MCInit == Init /\ scenario \in {"checks", "parsing", "race"} /\ Within
MCNext == Next /\ scenario' = scenario /\ Within'
MCSpec == MCInit /\ [][MCNext]_<<vars, scenario>> /\ Fairness
=============================================================================
