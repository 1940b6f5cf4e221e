------------------------------ MODULE MCDrive ------------------------------
(***************************************************************************)
(* Two words, so that one goal's text contains another's; a whitelisted    *)
(* and an unlisted domain; an age below and above the stall threshold; a   *)
(* model that claims an age of its own; no and full confidence.            *)
(***************************************************************************)
EXTENDS Drive

CONSTANTS a, b, home, work

MCWords == {a, b}
MCDomains == {home, work}
MCAges == {0, 3}

Goal(text, flagged, domain, push, days) ==
    [text |-> text, status |-> "active", flagged |-> flagged, domain |-> domain,
     push |-> push, threshold |-> 2, days |-> days]

MCNewGoals ==
    {Goal({a}, FALSE, home, FALSE, 0), Goal({a, b}, TRUE, NoDomain, TRUE, 3),
     Goal({b}, FALSE, work, TRUE, 3)}

MCUpdateFields == {"flagged", "push"}

MCSignalChoices ==
    [relates : {{a}, {b}, {a, b}}, conf : {0, 2}, days : {NoDays}]
        \cup [relates : {{a}, {b}, {a, b}}, conf : {0}, days : {9}]

Config(drive, domains, budget, pressure) ==
    [drive |-> drive, domains |-> domains, budget |-> budget, pressure |-> pressure]

MCConfigs ==
    {Config(FALSE, {}, 3, "standard"), Config(TRUE, {}, 1, "standard"),
     Config(TRUE, {home}, 3, "quiet"), Config(TRUE, {home}, 1, "firm"),
     Config(TRUE, {}, 1, "firm"), Config(TRUE, {home}, 0, "standard")}
=============================================================================
