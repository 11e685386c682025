---------------------------- MODULE MCAdmission ----------------------------
(* Model values for Admission: a direct and a proxied deployment, of which a *)
(* reload changes every setting, and a direct one capped by address only.    *)
EXTENDS Admission, TLC

Direct ==
    [proxy |-> FALSE, banOn |-> TRUE,
     policy |-> [max |-> 2, window |-> 1, duration |-> 1],
     maxConn |-> 1, rateMax |-> 1, rateWindow |-> 1,
     perIp |-> 0, deadline |-> TRUE]

Proxied ==
    [Direct EXCEPT !.proxy = TRUE, !.policy.max = 1, !.maxConn = 0, !.perIp = 1]

Capped == [Direct EXCEPT !.maxConn = 0, !.perIp = 1]

MCConfigs == {Direct, Proxied, Capped}
MCDurations == {1}
=============================================================================
