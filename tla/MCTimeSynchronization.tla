------------------------ MODULE MCTimeSynchronization ------------------------
(* Small instances of TimeSynchronization: UTC and one other zone. *)
EXTENDS TimeSynchronization

CONSTANTS node1, ipv6, domain, invalid, cet

OnlyUtc == {Utc}
TwoZones == {Utc, [offset |-> 2, name |-> cet]}

\* Filter is SelectSeq, on the lists of up to three of three values.
ASSUME FilterIsSelectSeq ==
    \A n \in 0..3 : \A list \in [1..n -> 1..3], values \in SUBSET (1..3) :
        Filter(list, {i \in DOMAIN list : list[i] \in values})
            = SelectSeq(list, LAMBDA value : value \in values)
=============================================================================
