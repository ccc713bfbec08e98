----------------------------- MODULE MCRouting -----------------------------
(* Instances of Routing for TLC. *)
EXTENDS Routing

Both == [NoModes EXCEPT !["streaming"] = "DELTA", !["tool_calling"] = "NATIVE"]
Contract(name, window, together) ==
    [id |-> name, fingerprint |-> name, window |-> window, output |-> 1, usageRequired |-> FALSE,
     capabilities |-> [modes |-> Both,
        combinations |-> IF together THEN {Both}
                         ELSE {[NoModes EXCEPT !["streaming"] = "DELTA"],
                               [NoModes EXCEPT !["tool_calling"] = "NATIVE"]}]]

Bound(contract) == [contract |-> contract, requirements |-> NoRequirements]

MCBindings ==
    [small |-> Bound(Contract("f1", 1, TRUE)), large |-> Bound(Contract("f2", 2, TRUE)),
     apart |-> Bound(Contract("f1", 1, FALSE)),
     clash |-> Bound([Contract("f1", 2, TRUE) EXCEPT !.fingerprint = "f3"])]

Entry(id, binding, region) ==
    [id |-> id, version |-> 1, definition |-> "agent", binding |-> binding, policies |-> {1},
     region |-> region, retention |-> "r1", attempts |-> 2]

\* Two Variants; one that cannot stream and call tools in one request, the other
\* declared for two regions; one Contract with two fingerprints.
Plain == <<Entry(2, "large", "eu"), Entry(1, "small", "eu")>>
Mixed == <<Entry(1, "apart", "eu"), Entry(2, "large", "eu"), Entry(2, "large", "us")>>
Conflicting == <<Entry(1, "small", "eu"), Entry(2, "clash", "eu")>>

NoGates == [maxPrice |-> None, minQuality |-> None, availability |-> FALSE, minQuota |-> None,
            costCap |-> None]
Objective(dimension, direction, missing) ==
    [dimension |-> dimension, direction |-> direction, missing |-> missing]
Policy == [identity |-> 1, allowed |-> None, requirements |-> NoRequirements, regions |-> None,
           retention |-> None, gates |-> NoGates, objectives |-> <<>>, soft |-> FALSE]

Priced == [Policy EXCEPT !.gates = [NoGates EXCEPT !.maxPrice = 2, !.availability = TRUE],
                         !.objectives = <<Objective("COST", "MINIMIZE", "ORDER_LAST")>>]
Ranked == [Policy EXCEPT !.soft = TRUE,
                         !.objectives = <<Objective("QUALITY", "MAXIMIZE", "ORDER_LAST"),
                                          Objective("LATENCY", "MINIMIZE", "ORDER_FIRST")>>]
Capable == [Ranked EXCEPT !.requirements = [NoRequirements EXCEPT !.modes = Both],
                          !.regions = {"eu"}]
Capped == [Policy EXCEPT !.gates = [NoGates EXCEPT !.minQuota = 1, !.minQuality = 1,
                                    !.costCap = [currency |-> "EUR", max |-> 12]],
                         !.retention = {"r1"}]

Snapshot(name, kind, id, at, until) ==
    [name |-> name, kind |-> kind, subject |-> <<id, 1>>, version |-> at, at |-> at,
     until |-> until, fingerprint |-> None, intact |-> TRUE,
     input |-> 1, output |-> 1, currency |-> "EUR", quality |-> 2, latency |-> 1,
     available |-> TRUE, value |-> IF kind = "RETENTION" THEN "r1" ELSE 1]
Price(name, id, at, until, input) ==
    [Snapshot(name, "PRICING", id, at, until) EXCEPT !.input = input]

\* On both Variants, part of it stale at time 1; an endpoint that is down; then a
\* price announced for time 1 and a price that is not intact.
MCSnapshots ==
    [price1 |-> Price("price1", 1, 0, 0, 1), price2 |-> Price("price2", 2, 0, 1, 2),
     model1 |-> [Snapshot("model1", "MODEL_EVIDENCE", 1, 0, 1) EXCEPT !.latency = None],
     model2 |-> Snapshot("model2", "MODEL_EVIDENCE", 2, 0, 0),
     up1 |-> Snapshot("up1", "AVAILABILITY", 1, 0, 1),
     up2 |-> Snapshot("up2", "AVAILABILITY", 2, 0, 1),
     limits1 |-> Snapshot("limits1", "OPERATIONAL_LIMITS", 1, 0, 1),
     limits2 |-> Snapshot("limits2", "OPERATIONAL_LIMITS", 2, 0, 1),
     retention1 |-> Snapshot("retention1", "RETENTION", 1, 0, 1),
     retention2 |-> Snapshot("retention2", "RETENTION", 2, 0, 1),
     announced |-> Price("announced", 1, 1, 1, 3),
     broken |-> [Price("broken", 2, 0, 1, 1) EXCEPT !.intact = FALSE, !.version = 1],
     down2 |-> [Snapshot("down2", "AVAILABILITY", 2, 1, 1) EXCEPT !.available = FALSE]]
MCLater == {"announced", "broken"}
Healthy == DOMAIN MCSnapshots \ {"announced", "broken", "down2"}
Partial == Healthy \ {"limits2"}

Setup(c, p, ev) == [catalog |-> c, policy |-> p, evidence |-> ev]
MCSetups == {Setup(Plain, Priced, Healthy), Setup(Plain, Priced, Healthy \cup {"down2"}),
             Setup(Plain, Ranked, Healthy),
             Setup(Mixed, Capable, Healthy), Setup(Plain, Capped, Healthy),
             Setup(Plain, Capped, Partial), Setup(Conflicting, Priced, Healthy)}

MCRecommended == <<1, 2>>

RunSymmetry == Permutations(Runs)
=============================================================================
