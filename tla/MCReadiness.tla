---------------------------- MODULE MCReadiness ----------------------------
(* Instances of Readiness for TLC: a notice, judged as a procurement       *)
(* notice and not judged as a support programme, that asks for a licence,  *)
(* and after its correction for a certificate, direct production, a        *)
(* registration number and a track record.                                 *)
EXTENDS Readiness

Nm(stem, tail, words, standard, rank) ==
    [stem |-> stem, tail |-> tail, words |-> words, standard |-> standard,
     years |-> 0, rank |-> rank]

MCLicence == Nm("telecom", "licence paper", {"licence", "licence paper"}, "", 2)
MCIso == Nm("ISO 9001", "", {"certified"}, "", 3)
MCDirect == Nm("direct production", "", {"direct"}, "", 4)
MCNumber == Nm("registration", "", {}, "number", 5)
MCLimit == Nm("works", "licence", {}, "", 8)
MCWorks == [Nm("works", "", {"record"}, "", 9) EXCEPT !.years = 1]

MCPublished == <<
    [docs |-> {MCLicence}, conditions |-> {}, limits |-> {MCLimit},
     official |-> {<<"south", "hill">>}, industry |-> "software", budget |-> 3],
    [docs |-> {MCIso, MCDirect, MCNumber}, limits |-> {},
     conditions |-> {[category |-> "record", name |-> MCWorks, unit |-> "",
                      threshold |-> 2]},
     official |-> {}, industry |-> "software", budget |-> 3] >>

MCClass == [informatics |-> {"software", "data"}]

P(region, groups, size, listed) ==
    [region |-> region, groups |-> groups, size |-> size, number |-> "123",
     directCert |-> FALSE, listed |-> listed]
MCProfile == {
    P(<<"south", "hill">>, {"informatics"}, "medium", {<<"licenses", MCLicence>>}),
    P(<<"south">>, {"software"}, "small", {}),
    P(<<"north">>, {"software"}, "", {})}

A(table, name, status, until) ==
    [table |-> table, name |-> name, status |-> status, until |-> until]
MCAnswer == {A("licenses", MCLicence, "held", 2), A("licenses", MCLicence, "lacking", 0),
             A("certifications", MCIso, "held", 1)}
MCRecord == {[amount |-> 1, on |-> 1]}
MCSymmetry == Permutations(Client)
=============================================================================
