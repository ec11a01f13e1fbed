--------------------------- MODULE MCCustodySpine ---------------------------
(* Small instances of CustodySpine for TLC. *)
EXTENDS CustodySpine

CONSTANTS sup, r1, r2, d1, d2

MCRiders == {r1, r2, sup}
MCRidersOne == {r1}

\* Two competing seals and drop codes, one value of every other secret.
MCCodes ==
    [k \in SecretKinds |->
        IF k \in {"custody_seal", "buyer_drop_code"} THEN {d1, d2} ELSE {d1}]

MCCodesOne == [k \in SecretKinds |-> {d1}]
=============================================================================
